---- MODULE Spec2Model ----
(***************************************************************************)
(* Model of the bloodwork OCR pipeline of backend/app/services/             *)
(* ocr_service.py: process_single_file and the stages it runs for each      *)
(* page (extract_text_tesseract, parse_markers_with_llm,                    *)
(* extract_markers_regex, process_with_vision), with the marker schema      *)
(* BloodworkMarker of backend/app/models/schemas.py.                        *)
(*                                                                         *)
(* Representation.  A Python str that the code inspects character by        *)
(* character (marker names, units, numeric strings) is a sequence of        *)
(* one-character strings.  A recognized page text is the sequence of its    *)
(* lines, each line a string; "\n".join of the lines is the Python text.    *)
(* A marker value is an integer count of hundredths (95.0 is 9500) and a    *)
(* confidence an integer count of thousandths (0.5 is 500, 0.873 is 873)    *)
(* that stands for the float nearest to that decimal; the sum and the       *)
(* average of confidences are computed in the arithmetic of floats.  A      *)
(* float that is no whole number of hundredths is the record described at   *)
(* float(str).  A JSON value of a model reply is a record tagged with its   *)
(* JSON type in field t.                                                    *)
(***************************************************************************)
EXTENDS Integers, Sequences, FiniteSets, TLC

\* ------------------------------------------------------------------------
\* Python str operations
\* ------------------------------------------------------------------------
\* The character tables below list, of the characters Python's str methods
\* distinguish, those that a TLA+ string can hold; they are taken from the
\* str methods of CPython.

\* The characters c with c.lower() != c ...
UpperChars ==
  <<"A", "B", "C", "D", "E", "F", "G", "H", "I", "J", "K", "L", "M", "N", "O", "P",
    "Q", "R", "S", "T", "U", "V", "W", "X", "Y", "Z", "À", "Á", "Â", "Ã", "Ä", "Å",
    "Æ", "Ç", "È", "É", "Ê", "Ë", "Ì", "Í", "Î", "Ï", "Ð", "Ñ", "Ò", "Ó", "Ô", "Õ",
    "Ö", "Ø", "Ù", "Ú", "Û", "Ü", "Ý", "Þ", "Ɓ", "Ƃ", "Ƅ", "Ɔ", "Ƈ", "Ɖ", "Ɗ", "Ƌ",
    "Ǝ", "Ə", "Ɛ", "Ƒ", "Ɠ", "Ɣ", "Ɩ", "Ɨ", "Ƙ", "Ɯ", "Ɲ", "Ɵ", "Ơ", "Ƣ", "Ƥ", "Ʀ",
    "Ƨ", "Ʃ", "Ƭ", "Ʈ", "Ư", "Ʊ", "Ʋ", "Ƴ", "Ƶ", "Ʒ", "Ƹ", "Ƽ", "Ǆ", "ǅ", "Ǉ", "ǈ",
    "Ǌ", "ǋ", "Ǎ", "Ǐ", "Ǒ", "Ǔ", "Ǖ", "Ǘ", "Ǚ", "Ǜ", "Ǟ", "Ǡ", "Ǣ", "Ǥ", "Ǧ", "Ǩ",
    "Ǫ", "Ǭ", "Ǯ", "Ǳ", "ǲ", "Ǵ", "Ƕ", "Ƿ", "Ǹ", "Ǻ", "Ǽ", "Ǿ", "Ά", "Έ", "Ή", "Ί",
    "Ό", "Ύ", "Ώ", "Α", "Β", "Γ", "Δ", "Ε", "Ζ", "Η", "Θ", "Ι", "Κ", "Λ", "Μ", "Ν",
    "Ξ", "Ο", "Π", "Ρ", "Σ", "Τ", "Υ", "Φ", "Χ", "Ψ", "Ω", "Ϊ", "Ϋ", "Ϗ", "Ϙ", "Ϛ",
    "Ϝ", "Ϟ", "Ϡ", "Ϣ", "Ϥ", "Ϧ", "Ϩ", "Ϫ", "Ϭ", "Ϯ", "ϴ", "Ϸ", "Ϲ", "Ϻ", "Ͻ", "Ͼ",
    "Ͽ", "Ҁ", "Ҋ", "Ҍ", "Ҏ", "Ґ", "Ғ", "Ҕ", "Җ", "Ҙ", "Қ", "Ҝ", "Ҟ", "Ҡ", "Ң", "Ҥ",
    "Ҧ", "Ҩ", "Ҫ", "Ҭ", "Ү", "Ұ", "Ҳ", "Ҵ", "Ҷ", "Ҹ", "Һ", "Ҽ", "Ҿ", "Ӏ", "Ӂ", "Ӄ",
    "Ӆ", "Ӈ", "Ӊ", "Ӌ", "Ӎ", "Ӑ", "Ӓ", "Ӕ", "Ӗ", "Ә", "Ӛ", "Ӝ", "Ӟ", "Ӡ", "Ӣ", "Ӥ",
    "Ӧ", "Ө", "Ӫ", "Ӭ", "Ӯ", "Ӱ", "Ӳ", "Ӵ", "Ӷ", "Ӹ", "Ӻ", "Ӽ", "Ӿ", "Ⴀ", "Ⴁ", "Ⴂ",
    "Ⴃ", "Ⴄ", "Ⴅ", "Ⴆ", "Ⴇ", "Ⴈ", "Ⴉ", "Ⴊ", "Ⴋ", "Ⴌ", "Ⴍ", "Ⴎ", "Ⴏ", "Ⴐ", "Ⴑ", "Ⴒ",
    "Ⴓ", "Ⴔ", "Ⴕ", "Ⴖ", "Ⴗ", "Ⴘ", "Ⴙ", "Ⴚ", "Ⴛ", "Ⴜ", "Ⴝ", "Ⴞ", "Ⴟ", "Ⴠ", "Ⴡ", "Ⴢ",
    "Ⴣ", "Ⴤ", "Ⴥ", "Ⴧ", "Ⴭ", "Ꭰ", "Ꭱ", "Ꭲ", "Ꭳ", "Ꭴ", "Ꭵ", "Ꭶ", "Ꭷ", "Ꭸ", "Ꭹ", "Ꭺ",
    "Ꭻ", "Ꭼ", "Ꭽ", "Ꭾ", "Ꭿ", "Ꮀ", "Ꮁ", "Ꮂ", "Ꮃ", "Ꮄ", "Ꮅ", "Ꮆ", "Ꮇ", "Ꮈ", "Ꮉ", "Ꮊ",
    "Ꮋ", "Ꮌ", "Ꮍ", "Ꮎ", "Ꮏ", "Ꮐ", "Ꮑ", "Ꮒ", "Ꮓ", "Ꮔ", "Ꮕ", "Ꮖ", "Ꮗ", "Ꮘ", "Ꮙ", "Ꮚ",
    "Ꮛ", "Ꮜ", "Ꮝ", "Ꮞ", "Ꮟ", "Ꮠ", "Ꮡ", "Ꮢ", "Ꮣ", "Ꮤ", "Ꮥ", "Ꮦ", "Ꮧ", "Ꮨ", "Ꮩ", "Ꮪ",
    "Ꮫ", "Ꮬ", "Ꮭ", "Ꮮ", "Ꮯ", "Ꮰ", "Ꮱ", "Ꮲ", "Ꮳ", "Ꮴ", "Ꮵ", "Ꮶ", "Ꮷ", "Ꮸ", "Ꮹ", "Ꮺ",
    "Ꮻ", "Ꮼ", "Ꮽ", "Ꮾ", "Ꮿ", "Ᏸ", "Ᏹ", "Ᏺ", "Ᏻ", "Ᏼ", "Ᏽ", "Ა", "Ბ", "Გ", "Დ", "Ე",
    "Ვ", "Ზ", "Თ", "Ი", "Კ", "Ლ", "Მ", "Ნ", "Ო", "Პ", "Ჟ", "Რ", "Ს", "Ტ", "Უ", "Ფ",
    "Ქ", "Ღ", "Ყ", "Შ", "Ჩ", "Ც", "Ძ", "Წ", "Ჭ", "Ხ", "Ჯ", "Ჰ", "Ჱ", "Ჲ", "Ჳ", "Ჴ",
    "Ჵ", "Ჶ", "Ჷ", "Ჸ", "Ჹ", "Ჺ", "Ჽ", "Ჾ", "Ჿ", "Ẁ", "Ẃ", "Ẅ", "Ẇ", "Ẉ", "Ẋ", "Ẍ",
    "Ẏ", "Ẑ", "Ẓ", "Ẕ", "ẞ", "Ạ", "Ả", "Ấ", "Ầ", "Ẩ", "Ẫ", "Ậ", "Ắ", "Ằ", "Ẳ", "Ẵ",
    "Ặ", "Ẹ", "Ẻ", "Ẽ", "Ế", "Ề", "Ể", "Ễ", "Ệ", "Ỉ", "Ị", "Ọ", "Ỏ", "Ố", "Ồ", "Ổ",
    "Ỗ", "Ộ", "Ớ", "Ờ", "Ở", "Ỡ", "Ợ", "Ụ", "Ủ", "Ứ", "Ừ", "Ử", "Ữ", "Ự", "Ỳ", "Ỵ",
    "Ỷ", "Ỹ", "Ỻ", "Ỽ", "Ỿ", "ᾈ", "ᾉ", "ᾊ", "ᾋ", "ᾌ", "ᾍ", "ᾎ", "ᾏ", "ᾘ", "ᾙ", "ᾚ",
    "ᾛ", "ᾜ", "ᾝ", "ᾞ", "ᾟ", "ᾨ", "ᾩ", "ᾪ", "ᾫ", "ᾬ", "ᾭ", "ᾮ", "ᾯ", "Ᾰ", "Ᾱ", "Ὰ",
    "Ά", "ᾼ", "Ὲ", "Έ", "Ὴ", "Ή", "ῌ", "Ῐ", "Ῑ", "Ὶ", "Ί", "Ῠ", "Ῡ", "Ὺ", "Ύ", "Ῥ",
    "Ὸ", "Ό", "Ὼ", "Ώ", "ῼ", "Ↄ", "Ⓐ", "Ⓑ", "Ⓒ", "Ⓓ", "Ⓔ", "Ⓕ", "Ⓖ", "Ⓗ", "Ⓘ", "Ⓙ",
    "Ⓚ", "Ⓛ", "Ⓜ", "Ⓝ", "Ⓞ", "Ⓟ", "Ⓠ", "Ⓡ", "Ⓢ", "Ⓣ", "Ⓤ", "Ⓥ", "Ⓦ", "Ⓧ", "Ⓨ", "Ⓩ",
    "Ⲁ", "Ⲃ", "Ⲅ", "Ⲇ", "Ⲉ", "Ⲋ", "Ⲍ", "Ⲏ", "Ⲑ", "Ⲓ", "Ⲕ", "Ⲗ", "Ⲙ", "Ⲛ", "Ⲝ", "Ⲟ",
    "Ⲡ", "Ⲣ", "Ⲥ", "Ⲧ", "Ⲩ", "Ⲫ", "Ⲭ", "Ⲯ", "Ⲱ", "Ⲳ", "Ⲵ", "Ⲷ", "Ⲹ", "Ⲻ", "Ⲽ", "Ⲿ",
    "Ⳁ", "Ⳃ", "Ⳅ", "Ⳇ", "Ⳉ", "Ⳋ", "Ⳍ", "Ⳏ", "Ⳑ", "Ⳓ", "Ⳕ", "Ⳗ", "Ⳙ", "Ⳛ", "Ⳝ", "Ⳟ",
    "Ⳡ", "Ⳣ", "Ⳬ", "Ⳮ", "Ⳳ", "Ꚁ", "Ꚃ", "Ꚅ", "Ꚇ", "Ꚉ", "Ꚋ", "Ꚍ", "Ꚏ", "Ꚑ", "Ꚓ", "Ꚕ",
    "Ꚗ", "Ꚙ", "Ꚛ", "Ꞁ", "Ꞃ", "Ꞅ", "Ꞇ", "Ꞌ", "Ɥ", "Ꞑ", "Ꞓ", "Ꞗ", "Ꞙ", "Ꞛ", "Ꞝ", "Ꞟ",
    "Ꞡ", "Ꞣ", "Ꞥ", "Ꞧ", "Ꞩ", "Ɦ", "Ɜ", "Ɡ", "Ɬ", "Ɪ", "Ʞ", "Ʇ", "Ʝ", "Ꭓ", "Ꞵ", "Ꞷ",
    "Ꞹ", "Ꞻ", "Ꞽ", "Ꞿ", "Ꟁ", "Ꟃ", "Ꞔ", "Ʂ", "Ᶎ", "Ꟈ", "Ꟊ", "Ꟑ", "Ꟗ", "Ꟙ", "Ꟶ">>

\* ... and c.lower() at the same position, named by its code point where a
\* TLA+ string cannot hold it
LowerChars ==
  <<"a", "b", "c", "d", "e", "f", "g", "h", "i", "j", "k", "l", "m", "n", "o", "p",
    "q", "r", "s", "t", "u", "v", "w", "x", "y", "z", "à", "á", "â", "ã", "ä", "å",
    "æ", "ç", "è", "é", "ê", "ë", "ì", "í", "î", "ï", "ð", "ñ", "ò", "ó", "ô", "õ",
    "ö", "ø", "ù", "ú", "û", "ü", "ý", "þ", "U+0253", "ƃ", "ƅ", "U+0254", "ƈ", "U+0256", "U+0257", "ƌ",
    "ǝ", "U+0259", "U+025B", "ƒ", "U+0260", "U+0263", "U+0269", "U+0268", "ƙ", "U+026F", "U+0272", "U+0275", "ơ", "ƣ", "ƥ", "ʀ",
    "ƨ", "ʃ", "ƭ", "ʈ", "ư", "ʊ", "ʋ", "ƴ", "ƶ", "ʒ", "ƹ", "ƽ", "ǆ", "ǆ", "ǉ", "ǉ",
    "ǌ", "ǌ", "ǎ", "ǐ", "ǒ", "ǔ", "ǖ", "ǘ", "ǚ", "ǜ", "ǟ", "ǡ", "ǣ", "ǥ", "ǧ", "ǩ",
    "ǫ", "ǭ", "ǯ", "ǳ", "ǳ", "ǵ", "ƕ", "ƿ", "ǹ", "ǻ", "ǽ", "ǿ", "ά", "έ", "ή", "ί",
    "ό", "ύ", "ώ", "α", "β", "γ", "δ", "ε", "ζ", "η", "θ", "ι", "κ", "λ", "μ", "ν",
    "ξ", "ο", "π", "ρ", "σ", "τ", "υ", "φ", "χ", "ψ", "ω", "ϊ", "ϋ", "ϗ", "ϙ", "ϛ",
    "ϝ", "ϟ", "ϡ", "ϣ", "ϥ", "ϧ", "ϩ", "ϫ", "ϭ", "ϯ", "θ", "ϸ", "ϲ", "ϻ", "U+037B", "U+037C",
    "U+037D", "ҁ", "ҋ", "ҍ", "ҏ", "ґ", "ғ", "ҕ", "җ", "ҙ", "қ", "ҝ", "ҟ", "ҡ", "ң", "ҥ",
    "ҧ", "ҩ", "ҫ", "ҭ", "ү", "ұ", "ҳ", "ҵ", "ҷ", "ҹ", "һ", "ҽ", "ҿ", "ӏ", "ӂ", "ӄ",
    "ӆ", "ӈ", "ӊ", "ӌ", "ӎ", "ӑ", "ӓ", "ӕ", "ӗ", "ә", "ӛ", "ӝ", "ӟ", "ӡ", "ӣ", "ӥ",
    "ӧ", "ө", "ӫ", "ӭ", "ӯ", "ӱ", "ӳ", "ӵ", "ӷ", "ӹ", "ӻ", "ӽ", "ӿ", "U+2D00", "U+2D01", "U+2D02",
    "U+2D03", "U+2D04", "U+2D05", "U+2D06", "U+2D07", "U+2D08", "U+2D09", "U+2D0A", "U+2D0B", "U+2D0C", "U+2D0D", "U+2D0E", "U+2D0F", "U+2D10", "U+2D11", "U+2D12",
    "U+2D13", "U+2D14", "U+2D15", "U+2D16", "U+2D17", "U+2D18", "U+2D19", "U+2D1A", "U+2D1B", "U+2D1C", "U+2D1D", "U+2D1E", "U+2D1F", "U+2D20", "U+2D21", "U+2D22",
    "U+2D23", "U+2D24", "U+2D25", "U+2D27", "U+2D2D", "U+AB70", "U+AB71", "U+AB72", "U+AB73", "U+AB74", "U+AB75", "U+AB76", "U+AB77", "U+AB78", "U+AB79", "U+AB7A",
    "U+AB7B", "U+AB7C", "U+AB7D", "U+AB7E", "U+AB7F", "ꮀ", "ꮁ", "ꮂ", "ꮃ", "ꮄ", "ꮅ", "ꮆ", "ꮇ", "ꮈ", "ꮉ", "ꮊ",
    "ꮋ", "ꮌ", "ꮍ", "ꮎ", "ꮏ", "ꮐ", "ꮑ", "ꮒ", "ꮓ", "ꮔ", "ꮕ", "ꮖ", "ꮗ", "ꮘ", "ꮙ", "ꮚ",
    "ꮛ", "ꮜ", "ꮝ", "ꮞ", "ꮟ", "ꮠ", "ꮡ", "ꮢ", "ꮣ", "ꮤ", "ꮥ", "ꮦ", "ꮧ", "ꮨ", "ꮩ", "ꮪ",
    "ꮫ", "ꮬ", "ꮭ", "ꮮ", "ꮯ", "ꮰ", "ꮱ", "ꮲ", "ꮳ", "ꮴ", "ꮵ", "ꮶ", "ꮷ", "ꮸ", "ꮹ", "ꮺ",
    "ꮻ", "ꮼ", "ꮽ", "ꮾ", "ꮿ", "ᏸ", "ᏹ", "ᏺ", "ᏻ", "ᏼ", "ᏽ", "ა", "ბ", "გ", "დ", "ე",
    "ვ", "ზ", "თ", "ი", "კ", "ლ", "მ", "ნ", "ო", "პ", "ჟ", "რ", "ს", "ტ", "უ", "ფ",
    "ქ", "ღ", "ყ", "შ", "ჩ", "ც", "ძ", "წ", "ჭ", "ხ", "ჯ", "ჰ", "ჱ", "ჲ", "ჳ", "ჴ",
    "ჵ", "ჶ", "ჷ", "ჸ", "ჹ", "ჺ", "ჽ", "ჾ", "ჿ", "ẁ", "ẃ", "ẅ", "ẇ", "ẉ", "ẋ", "ẍ",
    "ẏ", "ẑ", "ẓ", "ẕ", "ß", "ạ", "ả", "ấ", "ầ", "ẩ", "ẫ", "ậ", "ắ", "ằ", "ẳ", "ẵ",
    "ặ", "ẹ", "ẻ", "ẽ", "ế", "ề", "ể", "ễ", "ệ", "ỉ", "ị", "ọ", "ỏ", "ố", "ồ", "ổ",
    "ỗ", "ộ", "ớ", "ờ", "ở", "ỡ", "ợ", "ụ", "ủ", "ứ", "ừ", "ử", "ữ", "ự", "ỳ", "ỵ",
    "ỷ", "ỹ", "ỻ", "ỽ", "ỿ", "ᾀ", "ᾁ", "ᾂ", "ᾃ", "ᾄ", "ᾅ", "ᾆ", "ᾇ", "ᾐ", "ᾑ", "ᾒ",
    "ᾓ", "ᾔ", "ᾕ", "ᾖ", "ᾗ", "ᾠ", "ᾡ", "ᾢ", "ᾣ", "ᾤ", "ᾥ", "ᾦ", "ᾧ", "ᾰ", "ᾱ", "U+1F70",
    "U+1F71", "ᾳ", "U+1F72", "U+1F73", "U+1F74", "U+1F75", "ῃ", "ῐ", "ῑ", "U+1F76", "U+1F77", "ῠ", "ῡ", "U+1F7A", "U+1F7B", "ῥ",
    "U+1F78", "U+1F79", "U+1F7C", "U+1F7D", "ῳ", "ↄ", "ⓐ", "ⓑ", "ⓒ", "ⓓ", "ⓔ", "ⓕ", "ⓖ", "ⓗ", "ⓘ", "ⓙ",
    "ⓚ", "ⓛ", "ⓜ", "ⓝ", "ⓞ", "ⓟ", "ⓠ", "ⓡ", "ⓢ", "ⓣ", "ⓤ", "ⓥ", "ⓦ", "ⓧ", "ⓨ", "ⓩ",
    "ⲁ", "ⲃ", "ⲅ", "ⲇ", "ⲉ", "ⲋ", "ⲍ", "ⲏ", "ⲑ", "ⲓ", "ⲕ", "ⲗ", "ⲙ", "ⲛ", "ⲝ", "ⲟ",
    "ⲡ", "ⲣ", "ⲥ", "ⲧ", "ⲩ", "ⲫ", "ⲭ", "ⲯ", "ⲱ", "ⲳ", "ⲵ", "ⲷ", "ⲹ", "ⲻ", "ⲽ", "ⲿ",
    "ⳁ", "ⳃ", "ⳅ", "ⳇ", "ⳉ", "ⳋ", "ⳍ", "ⳏ", "ⳑ", "ⳓ", "ⳕ", "ⳗ", "ⳙ", "ⳛ", "ⳝ", "ⳟ",
    "ⳡ", "ⳣ", "ⳬ", "ⳮ", "ⳳ", "ꚁ", "ꚃ", "ꚅ", "ꚇ", "ꚉ", "ꚋ", "ꚍ", "ꚏ", "ꚑ", "ꚓ", "ꚕ",
    "ꚗ", "ꚙ", "ꚛ", "ꞁ", "ꞃ", "ꞅ", "ꞇ", "ꞌ", "U+0265", "ꞑ", "ꞓ", "ꞗ", "ꞙ", "ꞛ", "ꞝ", "ꞟ",
    "ꞡ", "ꞣ", "ꞥ", "ꞧ", "ꞩ", "U+0266", "U+025C", "U+0261", "U+026C", "U+026A", "ʞ", "ʇ", "ʝ", "U+AB53", "ꞵ", "ꞷ",
    "ꞹ", "ꞻ", "ꞽ", "ꞿ", "ꟁ", "ꟃ", "ꞔ", "ʂ", "ᶎ", "ꟈ", "ꟊ", "ꟑ", "ꟗ", "ꟙ", "ꟶ">>

\* The characters of UpperChars as a set
UpperSet ==
  {"A", "B", "C", "D", "E", "F", "G", "H", "I", "J", "K", "L", "M", "N", "O", "P",
   "Q", "R", "S", "T", "U", "V", "W", "X", "Y", "Z", "À", "Á", "Â", "Ã", "Ä", "Å",
   "Æ", "Ç", "È", "É", "Ê", "Ë", "Ì", "Í", "Î", "Ï", "Ð", "Ñ", "Ò", "Ó", "Ô", "Õ",
   "Ö", "Ø", "Ù", "Ú", "Û", "Ü", "Ý", "Þ", "Ɓ", "Ƃ", "Ƅ", "Ɔ", "Ƈ", "Ɖ", "Ɗ", "Ƌ",
   "Ǝ", "Ə", "Ɛ", "Ƒ", "Ɠ", "Ɣ", "Ɩ", "Ɨ", "Ƙ", "Ɯ", "Ɲ", "Ɵ", "Ơ", "Ƣ", "Ƥ", "Ʀ",
   "Ƨ", "Ʃ", "Ƭ", "Ʈ", "Ư", "Ʊ", "Ʋ", "Ƴ", "Ƶ", "Ʒ", "Ƹ", "Ƽ", "Ǆ", "ǅ", "Ǉ", "ǈ",
   "Ǌ", "ǋ", "Ǎ", "Ǐ", "Ǒ", "Ǔ", "Ǖ", "Ǘ", "Ǚ", "Ǜ", "Ǟ", "Ǡ", "Ǣ", "Ǥ", "Ǧ", "Ǩ",
   "Ǫ", "Ǭ", "Ǯ", "Ǳ", "ǲ", "Ǵ", "Ƕ", "Ƿ", "Ǹ", "Ǻ", "Ǽ", "Ǿ", "Ά", "Έ", "Ή", "Ί",
   "Ό", "Ύ", "Ώ", "Α", "Β", "Γ", "Δ", "Ε", "Ζ", "Η", "Θ", "Ι", "Κ", "Λ", "Μ", "Ν",
   "Ξ", "Ο", "Π", "Ρ", "Σ", "Τ", "Υ", "Φ", "Χ", "Ψ", "Ω", "Ϊ", "Ϋ", "Ϗ", "Ϙ", "Ϛ",
   "Ϝ", "Ϟ", "Ϡ", "Ϣ", "Ϥ", "Ϧ", "Ϩ", "Ϫ", "Ϭ", "Ϯ", "ϴ", "Ϸ", "Ϲ", "Ϻ", "Ͻ", "Ͼ",
   "Ͽ", "Ҁ", "Ҋ", "Ҍ", "Ҏ", "Ґ", "Ғ", "Ҕ", "Җ", "Ҙ", "Қ", "Ҝ", "Ҟ", "Ҡ", "Ң", "Ҥ",
   "Ҧ", "Ҩ", "Ҫ", "Ҭ", "Ү", "Ұ", "Ҳ", "Ҵ", "Ҷ", "Ҹ", "Һ", "Ҽ", "Ҿ", "Ӏ", "Ӂ", "Ӄ",
   "Ӆ", "Ӈ", "Ӊ", "Ӌ", "Ӎ", "Ӑ", "Ӓ", "Ӕ", "Ӗ", "Ә", "Ӛ", "Ӝ", "Ӟ", "Ӡ", "Ӣ", "Ӥ",
   "Ӧ", "Ө", "Ӫ", "Ӭ", "Ӯ", "Ӱ", "Ӳ", "Ӵ", "Ӷ", "Ӹ", "Ӻ", "Ӽ", "Ӿ", "Ⴀ", "Ⴁ", "Ⴂ",
   "Ⴃ", "Ⴄ", "Ⴅ", "Ⴆ", "Ⴇ", "Ⴈ", "Ⴉ", "Ⴊ", "Ⴋ", "Ⴌ", "Ⴍ", "Ⴎ", "Ⴏ", "Ⴐ", "Ⴑ", "Ⴒ",
   "Ⴓ", "Ⴔ", "Ⴕ", "Ⴖ", "Ⴗ", "Ⴘ", "Ⴙ", "Ⴚ", "Ⴛ", "Ⴜ", "Ⴝ", "Ⴞ", "Ⴟ", "Ⴠ", "Ⴡ", "Ⴢ",
   "Ⴣ", "Ⴤ", "Ⴥ", "Ⴧ", "Ⴭ", "Ꭰ", "Ꭱ", "Ꭲ", "Ꭳ", "Ꭴ", "Ꭵ", "Ꭶ", "Ꭷ", "Ꭸ", "Ꭹ", "Ꭺ",
   "Ꭻ", "Ꭼ", "Ꭽ", "Ꭾ", "Ꭿ", "Ꮀ", "Ꮁ", "Ꮂ", "Ꮃ", "Ꮄ", "Ꮅ", "Ꮆ", "Ꮇ", "Ꮈ", "Ꮉ", "Ꮊ",
   "Ꮋ", "Ꮌ", "Ꮍ", "Ꮎ", "Ꮏ", "Ꮐ", "Ꮑ", "Ꮒ", "Ꮓ", "Ꮔ", "Ꮕ", "Ꮖ", "Ꮗ", "Ꮘ", "Ꮙ", "Ꮚ",
   "Ꮛ", "Ꮜ", "Ꮝ", "Ꮞ", "Ꮟ", "Ꮠ", "Ꮡ", "Ꮢ", "Ꮣ", "Ꮤ", "Ꮥ", "Ꮦ", "Ꮧ", "Ꮨ", "Ꮩ", "Ꮪ",
   "Ꮫ", "Ꮬ", "Ꮭ", "Ꮮ", "Ꮯ", "Ꮰ", "Ꮱ", "Ꮲ", "Ꮳ", "Ꮴ", "Ꮵ", "Ꮶ", "Ꮷ", "Ꮸ", "Ꮹ", "Ꮺ",
   "Ꮻ", "Ꮼ", "Ꮽ", "Ꮾ", "Ꮿ", "Ᏸ", "Ᏹ", "Ᏺ", "Ᏻ", "Ᏼ", "Ᏽ", "Ა", "Ბ", "Გ", "Დ", "Ე",
   "Ვ", "Ზ", "Თ", "Ი", "Კ", "Ლ", "Მ", "Ნ", "Ო", "Პ", "Ჟ", "Რ", "Ს", "Ტ", "Უ", "Ფ",
   "Ქ", "Ღ", "Ყ", "Შ", "Ჩ", "Ც", "Ძ", "Წ", "Ჭ", "Ხ", "Ჯ", "Ჰ", "Ჱ", "Ჲ", "Ჳ", "Ჴ",
   "Ჵ", "Ჶ", "Ჷ", "Ჸ", "Ჹ", "Ჺ", "Ჽ", "Ჾ", "Ჿ", "Ẁ", "Ẃ", "Ẅ", "Ẇ", "Ẉ", "Ẋ", "Ẍ",
   "Ẏ", "Ẑ", "Ẓ", "Ẕ", "ẞ", "Ạ", "Ả", "Ấ", "Ầ", "Ẩ", "Ẫ", "Ậ", "Ắ", "Ằ", "Ẳ", "Ẵ",
   "Ặ", "Ẹ", "Ẻ", "Ẽ", "Ế", "Ề", "Ể", "Ễ", "Ệ", "Ỉ", "Ị", "Ọ", "Ỏ", "Ố", "Ồ", "Ổ",
   "Ỗ", "Ộ", "Ớ", "Ờ", "Ở", "Ỡ", "Ợ", "Ụ", "Ủ", "Ứ", "Ừ", "Ử", "Ữ", "Ự", "Ỳ", "Ỵ",
   "Ỷ", "Ỹ", "Ỻ", "Ỽ", "Ỿ", "ᾈ", "ᾉ", "ᾊ", "ᾋ", "ᾌ", "ᾍ", "ᾎ", "ᾏ", "ᾘ", "ᾙ", "ᾚ",
   "ᾛ", "ᾜ", "ᾝ", "ᾞ", "ᾟ", "ᾨ", "ᾩ", "ᾪ", "ᾫ", "ᾬ", "ᾭ", "ᾮ", "ᾯ", "Ᾰ", "Ᾱ", "Ὰ",
   "Ά", "ᾼ", "Ὲ", "Έ", "Ὴ", "Ή", "ῌ", "Ῐ", "Ῑ", "Ὶ", "Ί", "Ῠ", "Ῡ", "Ὺ", "Ύ", "Ῥ",
   "Ὸ", "Ό", "Ὼ", "Ώ", "ῼ", "Ↄ", "Ⓐ", "Ⓑ", "Ⓒ", "Ⓓ", "Ⓔ", "Ⓕ", "Ⓖ", "Ⓗ", "Ⓘ", "Ⓙ",
   "Ⓚ", "Ⓛ", "Ⓜ", "Ⓝ", "Ⓞ", "Ⓟ", "Ⓠ", "Ⓡ", "Ⓢ", "Ⓣ", "Ⓤ", "Ⓥ", "Ⓦ", "Ⓧ", "Ⓨ", "Ⓩ",
   "Ⲁ", "Ⲃ", "Ⲅ", "Ⲇ", "Ⲉ", "Ⲋ", "Ⲍ", "Ⲏ", "Ⲑ", "Ⲓ", "Ⲕ", "Ⲗ", "Ⲙ", "Ⲛ", "Ⲝ", "Ⲟ",
   "Ⲡ", "Ⲣ", "Ⲥ", "Ⲧ", "Ⲩ", "Ⲫ", "Ⲭ", "Ⲯ", "Ⲱ", "Ⲳ", "Ⲵ", "Ⲷ", "Ⲹ", "Ⲻ", "Ⲽ", "Ⲿ",
   "Ⳁ", "Ⳃ", "Ⳅ", "Ⳇ", "Ⳉ", "Ⳋ", "Ⳍ", "Ⳏ", "Ⳑ", "Ⳓ", "Ⳕ", "Ⳗ", "Ⳙ", "Ⳛ", "Ⳝ", "Ⳟ",
   "Ⳡ", "Ⳣ", "Ⳬ", "Ⳮ", "Ⳳ", "Ꚁ", "Ꚃ", "Ꚅ", "Ꚇ", "Ꚉ", "Ꚋ", "Ꚍ", "Ꚏ", "Ꚑ", "Ꚓ", "Ꚕ",
   "Ꚗ", "Ꚙ", "Ꚛ", "Ꞁ", "Ꞃ", "Ꞅ", "Ꞇ", "Ꞌ", "Ɥ", "Ꞑ", "Ꞓ", "Ꞗ", "Ꞙ", "Ꞛ", "Ꞝ", "Ꞟ",
   "Ꞡ", "Ꞣ", "Ꞥ", "Ꞧ", "Ꞩ", "Ɦ", "Ɜ", "Ɡ", "Ɬ", "Ɪ", "Ʞ", "Ʇ", "Ʝ", "Ꭓ", "Ꞵ", "Ꞷ",
   "Ꞹ", "Ꞻ", "Ꞽ", "Ꞿ", "Ꟁ", "Ꟃ", "Ꞔ", "Ʂ", "Ᶎ", "Ꟈ", "Ꟊ", "Ꟑ", "Ꟗ", "Ꟙ", "Ꟶ"}

\* The lowercase image of each uppercase character
LowerOf ==
  [c \in UpperSet |-> LowerChars[CHOOSE pos \in DOMAIN UpperChars : UpperChars[pos] = c]]

\* str.lower() of one character outside the final-sigma rule
LowerChar(c) == IF c \in UpperSet THEN LowerOf[c] ELSE c

\* The cased characters that are not case-ignorable
CasedChars ==
  {"A", "B", "C", "D", "E", "F", "G", "H", "I", "J", "K", "L", "M", "N", "O", "P",
   "Q", "R", "S", "T", "U", "V", "W", "X", "Y", "Z", "a", "b", "c", "d", "e", "f",
   "g", "h", "i", "j", "k", "l", "m", "n", "o", "p", "q", "r", "s", "t", "u", "v",
   "w", "x", "y", "z", "ª", "µ", "º", "À", "Á", "Â", "Ã", "Ä", "Å", "Æ", "Ç", "È",
   "É", "Ê", "Ë", "Ì", "Í", "Î", "Ï", "Ð", "Ñ", "Ò", "Ó", "Ô", "Õ", "Ö", "Ø", "Ù",
   "Ú", "Û", "Ü", "Ý", "Þ", "ß", "à", "á", "â", "ã", "ä", "å", "æ", "ç", "è", "é",
   "ê", "ë", "ì", "í", "î", "ï", "ð", "ñ", "ò", "ó", "ô", "õ", "ö", "ø", "ù", "ú",
   "û", "ü", "ý", "þ", "ÿ", "ƀ", "Ɓ", "Ƃ", "ƃ", "Ƅ", "ƅ", "Ɔ", "Ƈ", "ƈ", "Ɖ", "Ɗ",
   "Ƌ", "ƌ", "ƍ", "Ǝ", "Ə", "Ɛ", "Ƒ", "ƒ", "Ɠ", "Ɣ", "ƕ", "Ɩ", "Ɨ", "Ƙ", "ƙ", "ƚ",
   "ƛ", "Ɯ", "Ɲ", "ƞ", "Ɵ", "Ơ", "ơ", "Ƣ", "ƣ", "Ƥ", "ƥ", "Ʀ", "Ƨ", "ƨ", "Ʃ", "ƪ",
   "ƫ", "Ƭ", "ƭ", "Ʈ", "Ư", "ư", "Ʊ", "Ʋ", "Ƴ", "ƴ", "Ƶ", "ƶ", "Ʒ", "Ƹ", "ƹ", "ƺ",
   "Ƽ", "ƽ", "ƾ", "ƿ", "Ǆ", "ǅ", "ǆ", "Ǉ", "ǈ", "ǉ", "Ǌ", "ǋ", "ǌ", "Ǎ", "ǎ", "Ǐ",
   "ǐ", "Ǒ", "ǒ", "Ǔ", "ǔ", "Ǖ", "ǖ", "Ǘ", "ǘ", "Ǚ", "ǚ", "Ǜ", "ǜ", "ǝ", "Ǟ", "ǟ",
   "Ǡ", "ǡ", "Ǣ", "ǣ", "Ǥ", "ǥ", "Ǧ", "ǧ", "Ǩ", "ǩ", "Ǫ", "ǫ", "Ǭ", "ǭ", "Ǯ", "ǯ",
   "ǰ", "Ǳ", "ǲ", "ǳ", "Ǵ", "ǵ", "Ƕ", "Ƿ", "Ǹ", "ǹ", "Ǻ", "ǻ", "Ǽ", "ǽ", "Ǿ", "ǿ",
   "ʀ", "ʁ", "ʂ", "ʃ", "ʄ", "ʅ", "ʆ", "ʇ", "ʈ", "ʉ", "ʊ", "ʋ", "ʌ", "ʍ", "ʎ", "ʏ",
   "ʐ", "ʑ", "ʒ", "ʓ", "ʕ", "ʖ", "ʗ", "ʘ", "ʙ", "ʚ", "ʛ", "ʜ", "ʝ", "ʞ", "ʟ", "ʠ",
   "ʡ", "ʢ", "ʣ", "ʤ", "ʥ", "ʦ", "ʧ", "ʨ", "ʩ", "ʪ", "ʫ", "ʬ", "ʭ", "ʮ", "ʯ", "Ά",
   "Έ", "Ή", "Ί", "Ό", "Ύ", "Ώ", "ΐ", "Α", "Β", "Γ", "Δ", "Ε", "Ζ", "Η", "Θ", "Ι",
   "Κ", "Λ", "Μ", "Ν", "Ξ", "Ο", "Π", "Ρ", "Σ", "Τ", "Υ", "Φ", "Χ", "Ψ", "Ω", "Ϊ",
   "Ϋ", "ά", "έ", "ή", "ί", "ΰ", "α", "β", "γ", "δ", "ε", "ζ", "η", "θ", "ι", "κ",
   "λ", "μ", "ν", "ξ", "ο", "π", "ρ", "ς", "σ", "τ", "υ", "φ", "χ", "ψ", "ω", "ϊ",
   "ϋ", "ό", "ύ", "ώ", "Ϗ", "ϐ", "ϑ", "ϒ", "ϓ", "ϔ", "ϕ", "ϖ", "ϗ", "Ϙ", "ϙ", "Ϛ",
   "ϛ", "Ϝ", "ϝ", "Ϟ", "ϟ", "Ϡ", "ϡ", "Ϣ", "ϣ", "Ϥ", "ϥ", "Ϧ", "ϧ", "Ϩ", "ϩ", "Ϫ",
   "ϫ", "Ϭ", "ϭ", "Ϯ", "ϯ", "ϰ", "ϱ", "ϲ", "ϳ", "ϴ", "ϵ", "Ϸ", "ϸ", "Ϲ", "Ϻ", "ϻ",
   "ϼ", "Ͻ", "Ͼ", "Ͽ", "Ҁ", "ҁ", "Ҋ", "ҋ", "Ҍ", "ҍ", "Ҏ", "ҏ", "Ґ", "ґ", "Ғ", "ғ",
   "Ҕ", "ҕ", "Җ", "җ", "Ҙ", "ҙ", "Қ", "қ", "Ҝ", "ҝ", "Ҟ", "ҟ", "Ҡ", "ҡ", "Ң", "ң",
   "Ҥ", "ҥ", "Ҧ", "ҧ", "Ҩ", "ҩ", "Ҫ", "ҫ", "Ҭ", "ҭ", "Ү", "ү", "Ұ", "ұ", "Ҳ", "ҳ",
   "Ҵ", "ҵ", "Ҷ", "ҷ", "Ҹ", "ҹ", "Һ", "һ", "Ҽ", "ҽ", "Ҿ", "ҿ", "Ӏ", "Ӂ", "ӂ", "Ӄ",
   "ӄ", "Ӆ", "ӆ", "Ӈ", "ӈ", "Ӊ", "ӊ", "Ӌ", "ӌ", "Ӎ", "ӎ", "ӏ", "Ӑ", "ӑ", "Ӓ", "ӓ",
   "Ӕ", "ӕ", "Ӗ", "ӗ", "Ә", "ә", "Ӛ", "ӛ", "Ӝ", "ӝ", "Ӟ", "ӟ", "Ӡ", "ӡ", "Ӣ", "ӣ",
   "Ӥ", "ӥ", "Ӧ", "ӧ", "Ө", "ө", "Ӫ", "ӫ", "Ӭ", "ӭ", "Ӯ", "ӯ", "Ӱ", "ӱ", "Ӳ", "ӳ",
   "Ӵ", "ӵ", "Ӷ", "ӷ", "Ӹ", "ӹ", "Ӻ", "ӻ", "Ӽ", "ӽ", "Ӿ", "ӿ", "ր", "ց", "ւ", "փ",
   "ք", "օ", "ֆ", "և", "ֈ", "Ⴀ", "Ⴁ", "Ⴂ", "Ⴃ", "Ⴄ", "Ⴅ", "Ⴆ", "Ⴇ", "Ⴈ", "Ⴉ", "Ⴊ",
   "Ⴋ", "Ⴌ", "Ⴍ", "Ⴎ", "Ⴏ", "Ⴐ", "Ⴑ", "Ⴒ", "Ⴓ", "Ⴔ", "Ⴕ", "Ⴖ", "Ⴗ", "Ⴘ", "Ⴙ", "Ⴚ",
   "Ⴛ", "Ⴜ", "Ⴝ", "Ⴞ", "Ⴟ", "Ⴠ", "Ⴡ", "Ⴢ", "Ⴣ", "Ⴤ", "Ⴥ", "Ⴧ", "Ⴭ", "ა", "ბ", "გ",
   "დ", "ე", "ვ", "ზ", "თ", "ი", "კ", "ლ", "მ", "ნ", "ო", "პ", "ჟ", "რ", "ს", "ტ",
   "უ", "ფ", "ქ", "ღ", "ყ", "შ", "ჩ", "ც", "ძ", "წ", "ჭ", "ხ", "ჯ", "ჰ", "ჱ", "ჲ",
   "ჳ", "ჴ", "ჵ", "ჶ", "ჷ", "ჸ", "ჹ", "ჺ", "ჽ", "ჾ", "ჿ", "Ꭰ", "Ꭱ", "Ꭲ", "Ꭳ", "Ꭴ",
   "Ꭵ", "Ꭶ", "Ꭷ", "Ꭸ", "Ꭹ", "Ꭺ", "Ꭻ", "Ꭼ", "Ꭽ", "Ꭾ", "Ꭿ", "Ꮀ", "Ꮁ", "Ꮂ", "Ꮃ", "Ꮄ",
   "Ꮅ", "Ꮆ", "Ꮇ", "Ꮈ", "Ꮉ", "Ꮊ", "Ꮋ", "Ꮌ", "Ꮍ", "Ꮎ", "Ꮏ", "Ꮐ", "Ꮑ", "Ꮒ", "Ꮓ", "Ꮔ",
   "Ꮕ", "Ꮖ", "Ꮗ", "Ꮘ", "Ꮙ", "Ꮚ", "Ꮛ", "Ꮜ", "Ꮝ", "Ꮞ", "Ꮟ", "Ꮠ", "Ꮡ", "Ꮢ", "Ꮣ", "Ꮤ",
   "Ꮥ", "Ꮦ", "Ꮧ", "Ꮨ", "Ꮩ", "Ꮪ", "Ꮫ", "Ꮬ", "Ꮭ", "Ꮮ", "Ꮯ", "Ꮰ", "Ꮱ", "Ꮲ", "Ꮳ", "Ꮴ",
   "Ꮵ", "Ꮶ", "Ꮷ", "Ꮸ", "Ꮹ", "Ꮺ", "Ꮻ", "Ꮼ", "Ꮽ", "Ꮾ", "Ꮿ", "Ᏸ", "Ᏹ", "Ᏺ", "Ᏻ", "Ᏼ",
   "Ᏽ", "ᏸ", "ᏹ", "ᏺ", "ᏻ", "ᏼ", "ᏽ", "ᲀ", "ᲁ", "ᲂ", "ᲃ", "ᲄ", "ᲅ", "ᲆ", "ᲇ", "ᲈ",
   "Ა", "Ბ", "Გ", "Დ", "Ე", "Ვ", "Ზ", "Თ", "Ი", "Კ", "Ლ", "Მ", "Ნ", "Ო", "Პ", "Ჟ",
   "Რ", "Ს", "Ტ", "Უ", "Ფ", "Ქ", "Ღ", "Ყ", "Შ", "Ჩ", "Ც", "Ძ", "Წ", "Ჭ", "Ხ", "Ჯ",
   "Ჰ", "Ჱ", "Ჲ", "Ჳ", "Ჴ", "Ჵ", "Ჶ", "Ჷ", "Ჸ", "Ჹ", "Ჺ", "Ჽ", "Ჾ", "Ჿ", "ᶀ", "ᶁ",
   "ᶂ", "ᶃ", "ᶄ", "ᶅ", "ᶆ", "ᶇ", "ᶈ", "ᶉ", "ᶊ", "ᶋ", "ᶌ", "ᶍ", "ᶎ", "ᶏ", "ᶐ", "ᶑ",
   "ᶒ", "ᶓ", "ᶔ", "ᶕ", "ᶖ", "ᶗ", "ᶘ", "ᶙ", "ᶚ", "Ẁ", "ẁ", "Ẃ", "ẃ", "Ẅ", "ẅ", "Ẇ",
   "ẇ", "Ẉ", "ẉ", "Ẋ", "ẋ", "Ẍ", "ẍ", "Ẏ", "ẏ", "Ẑ", "ẑ", "Ẓ", "ẓ", "Ẕ", "ẕ", "ẖ",
   "ẗ", "ẘ", "ẙ", "ẚ", "ẛ", "ẜ", "ẝ", "ẞ", "ẟ", "Ạ", "ạ", "Ả", "ả", "Ấ", "ấ", "Ầ",
   "ầ", "Ẩ", "ẩ", "Ẫ", "ẫ", "Ậ", "ậ", "Ắ", "ắ", "Ằ", "ằ", "Ẳ", "ẳ", "Ẵ", "ẵ", "Ặ",
   "ặ", "Ẹ", "ẹ", "Ẻ", "ẻ", "Ẽ", "ẽ", "Ế", "ế", "Ề", "ề", "Ể", "ể", "Ễ", "ễ", "Ệ",
   "ệ", "Ỉ", "ỉ", "Ị", "ị", "Ọ", "ọ", "Ỏ", "ỏ", "Ố", "ố", "Ồ", "ồ", "Ổ", "ổ", "Ỗ",
   "ỗ", "Ộ", "ộ", "Ớ", "ớ", "Ờ", "ờ", "Ở", "ở", "Ỡ", "ỡ", "Ợ", "ợ", "Ụ", "ụ", "Ủ",
   "ủ", "Ứ", "ứ", "Ừ", "ừ", "Ử", "ử", "Ữ", "ữ", "Ự", "ự", "Ỳ", "ỳ", "Ỵ", "ỵ", "Ỷ",
   "ỷ", "Ỹ", "ỹ", "Ỻ", "ỻ", "Ỽ", "ỽ", "Ỿ", "ỿ", "ᾀ", "ᾁ", "ᾂ", "ᾃ", "ᾄ", "ᾅ", "ᾆ",
   "ᾇ", "ᾈ", "ᾉ", "ᾊ", "ᾋ", "ᾌ", "ᾍ", "ᾎ", "ᾏ", "ᾐ", "ᾑ", "ᾒ", "ᾓ", "ᾔ", "ᾕ", "ᾖ",
   "ᾗ", "ᾘ", "ᾙ", "ᾚ", "ᾛ", "ᾜ", "ᾝ", "ᾞ", "ᾟ", "ᾠ", "ᾡ", "ᾢ", "ᾣ", "ᾤ", "ᾥ", "ᾦ",
   "ᾧ", "ᾨ", "ᾩ", "ᾪ", "ᾫ", "ᾬ", "ᾭ", "ᾮ", "ᾯ", "ᾰ", "ᾱ", "ᾲ", "ᾳ", "ᾴ", "ᾶ", "ᾷ",
   "Ᾰ", "Ᾱ", "Ὰ", "Ά", "ᾼ", "ι", "ῂ", "ῃ", "ῄ", "ῆ", "ῇ", "Ὲ", "Έ", "Ὴ", "Ή", "ῌ",
   "ῐ", "ῑ", "ῒ", "ΐ", "ῖ", "ῗ", "Ῐ", "Ῑ", "Ὶ", "Ί", "ῠ", "ῡ", "ῢ", "ΰ", "ῤ", "ῥ",
   "ῦ", "ῧ", "Ῠ", "Ῡ", "Ὺ", "Ύ", "Ῥ", "ῲ", "ῳ", "ῴ", "ῶ", "ῷ", "Ὸ", "Ό", "Ὼ", "Ώ",
   "ῼ", "Ↄ", "ↄ", "Ⓐ", "Ⓑ", "Ⓒ", "Ⓓ", "Ⓔ", "Ⓕ", "Ⓖ", "Ⓗ", "Ⓘ", "Ⓙ", "Ⓚ", "Ⓛ", "Ⓜ",
   "Ⓝ", "Ⓞ", "Ⓟ", "Ⓠ", "Ⓡ", "Ⓢ", "Ⓣ", "Ⓤ", "Ⓥ", "Ⓦ", "Ⓧ", "Ⓨ", "Ⓩ", "ⓐ", "ⓑ", "ⓒ",
   "ⓓ", "ⓔ", "ⓕ", "ⓖ", "ⓗ", "ⓘ", "ⓙ", "ⓚ", "ⓛ", "ⓜ", "ⓝ", "ⓞ", "ⓟ", "ⓠ", "ⓡ", "ⓢ",
   "ⓣ", "ⓤ", "ⓥ", "ⓦ", "ⓧ", "ⓨ", "ⓩ", "Ⲁ", "ⲁ", "Ⲃ", "ⲃ", "Ⲅ", "ⲅ", "Ⲇ", "ⲇ", "Ⲉ",
   "ⲉ", "Ⲋ", "ⲋ", "Ⲍ", "ⲍ", "Ⲏ", "ⲏ", "Ⲑ", "ⲑ", "Ⲓ", "ⲓ", "Ⲕ", "ⲕ", "Ⲗ", "ⲗ", "Ⲙ",
   "ⲙ", "Ⲛ", "ⲛ", "Ⲝ", "ⲝ", "Ⲟ", "ⲟ", "Ⲡ", "ⲡ", "Ⲣ", "ⲣ", "Ⲥ", "ⲥ", "Ⲧ", "ⲧ", "Ⲩ",
   "ⲩ", "Ⲫ", "ⲫ", "Ⲭ", "ⲭ", "Ⲯ", "ⲯ", "Ⲱ", "ⲱ", "Ⲳ", "ⲳ", "Ⲵ", "ⲵ", "Ⲷ", "ⲷ", "Ⲹ",
   "ⲹ", "Ⲻ", "ⲻ", "Ⲽ", "ⲽ", "Ⲿ", "ⲿ", "Ⳁ", "ⳁ", "Ⳃ", "ⳃ", "Ⳅ", "ⳅ", "Ⳇ", "ⳇ", "Ⳉ",
   "ⳉ", "Ⳋ", "ⳋ", "Ⳍ", "ⳍ", "Ⳏ", "ⳏ", "Ⳑ", "ⳑ", "Ⳓ", "ⳓ", "Ⳕ", "ⳕ", "Ⳗ", "ⳗ", "Ⳙ",
   "ⳙ", "Ⳛ", "ⳛ", "Ⳝ", "ⳝ", "Ⳟ", "ⳟ", "Ⳡ", "ⳡ", "Ⳣ", "ⳣ", "ⳤ", "Ⳬ", "ⳬ", "Ⳮ", "ⳮ",
   "Ⳳ", "ⳳ", "Ꚁ", "ꚁ", "Ꚃ", "ꚃ", "Ꚅ", "ꚅ", "Ꚇ", "ꚇ", "Ꚉ", "ꚉ", "Ꚋ", "ꚋ", "Ꚍ", "ꚍ",
   "Ꚏ", "ꚏ", "Ꚑ", "ꚑ", "Ꚓ", "ꚓ", "Ꚕ", "ꚕ", "Ꚗ", "ꚗ", "Ꚙ", "ꚙ", "Ꚛ", "ꚛ", "Ꞁ", "ꞁ",
   "Ꞃ", "ꞃ", "Ꞅ", "ꞅ", "Ꞇ", "ꞇ", "Ꞌ", "ꞌ", "Ɥ", "ꞎ", "Ꞑ", "ꞑ", "Ꞓ", "ꞓ", "ꞔ", "ꞕ",
   "Ꞗ", "ꞗ", "Ꞙ", "ꞙ", "Ꞛ", "ꞛ", "Ꞝ", "ꞝ", "Ꞟ", "ꞟ", "Ꞡ", "ꞡ", "Ꞣ", "ꞣ", "Ꞥ", "ꞥ",
   "Ꞧ", "ꞧ", "Ꞩ", "ꞩ", "Ɦ", "Ɜ", "Ɡ", "Ɬ", "Ɪ", "ꞯ", "Ʞ", "Ʇ", "Ʝ", "Ꭓ", "Ꞵ", "ꞵ",
   "Ꞷ", "ꞷ", "Ꞹ", "ꞹ", "Ꞻ", "ꞻ", "Ꞽ", "ꞽ", "Ꞿ", "ꞿ", "Ꟁ", "ꟁ", "Ꟃ", "ꟃ", "Ꞔ", "Ʂ",
   "Ᶎ", "Ꟈ", "ꟈ", "Ꟊ", "ꟊ", "Ꟑ", "ꟑ", "ꟓ", "ꟕ", "Ꟗ", "ꟗ", "Ꟙ", "ꟙ", "Ꟶ", "ꟶ", "ꟺ",
   "ꮀ", "ꮁ", "ꮂ", "ꮃ", "ꮄ", "ꮅ", "ꮆ", "ꮇ", "ꮈ", "ꮉ", "ꮊ", "ꮋ", "ꮌ", "ꮍ", "ꮎ", "ꮏ",
   "ꮐ", "ꮑ", "ꮒ", "ꮓ", "ꮔ", "ꮕ", "ꮖ", "ꮗ", "ꮘ", "ꮙ", "ꮚ", "ꮛ", "ꮜ", "ꮝ", "ꮞ", "ꮟ",
   "ꮠ", "ꮡ", "ꮢ", "ꮣ", "ꮤ", "ꮥ", "ꮦ", "ꮧ", "ꮨ", "ꮩ", "ꮪ", "ꮫ", "ꮬ", "ꮭ", "ꮮ", "ꮯ",
   "ꮰ", "ꮱ", "ꮲ", "ꮳ", "ꮴ", "ꮵ", "ꮶ", "ꮷ", "ꮸ", "ꮹ", "ꮺ", "ꮻ", "ꮼ", "ꮽ", "ꮾ", "ꮿ",
   "U+0253", "U+0254", "U+0256", "U+0257", "U+0259", "U+025B", "U+025C", "U+0260", "U+0261", "U+0263", "U+0265", "U+0266", "U+0268", "U+0269", "U+026A", "U+026C",
   "U+026F", "U+0272", "U+0275", "U+037B", "U+037C", "U+037D", "U+1F70", "U+1F71", "U+1F72", "U+1F73", "U+1F74", "U+1F75", "U+1F76", "U+1F77", "U+1F78", "U+1F79",
   "U+1F7A", "U+1F7B", "U+1F7C", "U+1F7D", "U+2D00", "U+2D01", "U+2D02", "U+2D03", "U+2D04", "U+2D05", "U+2D06", "U+2D07", "U+2D08", "U+2D09", "U+2D0A", "U+2D0B",
   "U+2D0C", "U+2D0D", "U+2D0E", "U+2D0F", "U+2D10", "U+2D11", "U+2D12", "U+2D13", "U+2D14", "U+2D15", "U+2D16", "U+2D17", "U+2D18", "U+2D19", "U+2D1A", "U+2D1B",
   "U+2D1C", "U+2D1D", "U+2D1E", "U+2D1F", "U+2D20", "U+2D21", "U+2D22", "U+2D23", "U+2D24", "U+2D25", "U+2D27", "U+2D2D", "U+AB53", "U+AB70", "U+AB71", "U+AB72",
   "U+AB73", "U+AB74", "U+AB75", "U+AB76", "U+AB77", "U+AB78", "U+AB79", "U+AB7A", "U+AB7B", "U+AB7C", "U+AB7D", "U+AB7E", "U+AB7F"}

\* The case-ignorable characters
CaseIgnorable ==
  {"'", ".", ":", "^", "¨", "­", "¯", "´", "·", "¸", "ʰ", "ʱ", "ʲ", "ʳ", "ʴ", "ʵ",
   "ʶ", "ʷ", "ʸ", "ʹ", "ʺ", "ʻ", "ʼ", "ʽ", "ʾ", "ʿ", "ˀ", "ˁ", "˂", "˃", "˄", "˅",
   "ˆ", "ˇ", "ˈ", "ˉ", "ˊ", "ˋ", "ˌ", "ˍ", "ˎ", "ˏ", "ː", "ˑ", "˒", "˓", "˔", "˕",
   "˖", "˗", "˘", "˙", "˚", "˛", "˜", "˝", "˞", "˟", "ˠ", "ˡ", "ˢ", "ˣ", "ˤ", "˥",
   "˦", "˧", "˨", "˩", "˪", "˫", "ˬ", "˭", "ˮ", "˯", "˰", "˱", "˲", "˳", "˴", "˵",
   "˶", "˷", "˸", "˹", "˺", "˻", "˼", "˽", "˾", "˿", "΄", "΅", "·", "҃", "҄", "҅",
   "҆", "҇", "҈", "҉", "֑", "֒", "֓", "֔", "֕", "֖", "֗", "֘", "֙", "֚", "֛", "֜",
   "֝", "֞", "֟", "֠", "֡", "֢", "֣", "֤", "֥", "֦", "֧", "֨", "֩", "֪", "֫", "֬",
   "֭", "֮", "֯", "ְ", "ֱ", "ֲ", "ֳ", "ִ", "ֵ", "ֶ", "ַ", "ָ", "ֹ", "ֺ", "ֻ", "ּ",
   "ֽ", "ֿ", "ׁ", "ׂ", "ׄ", "ׅ", "ׇ", "״", "ۖ", "ۗ", "ۘ", "ۙ", "ۚ", "ۛ", "ۜ", "۝",
   "۟", "۠", "ۡ", "ۢ", "ۣ", "ۤ", "ۥ", "ۦ", "ۧ", "ۨ", "۪", "۫", "۬", "ۭ", "ަ", "ާ",
   "ި", "ީ", "ު", "ޫ", "ެ", "ޭ", "ޮ", "ޯ", "ް", "߫", "߬", "߭", "߮", "߯", "߰", "߱",
   "߲", "߳", "ߴ", "ߵ", "ߺ", "߽", "࢈", "࢐", "࢑", "࢘", "࢙", "࢚", "࢛", "࢜", "࢝", "࢞",
   "࢟", "ࣉ", "࣊", "࣋", "࣌", "࣍", "࣎", "࣏", "࣐", "࣑", "࣒", "࣓", "ࣔ", "ࣕ", "ࣖ", "ࣗ",
   "ࣘ", "ࣙ", "ࣚ", "ࣛ", "ࣜ", "ࣝ", "ࣞ", "ࣟ", "࣠", "࣡", "࣢", "ࣣ", "ࣤ", "ࣥ", "ࣦ", "ࣧ",
   "ࣨ", "ࣩ", "࣪", "࣫", "࣬", "࣭", "࣮", "࣯", "ࣰ", "ࣱ", "ࣲ", "ࣳ", "ࣴ", "ࣵ", "ࣶ", "ࣷ",
   "ࣸ", "ࣹ", "ࣺ", "ࣻ", "ࣼ", "ࣽ", "ࣾ", "ࣿ", "ঁ", "়", "ু", "ূ", "ৃ", "ৄ", "্", "ৢ",
   "ৣ", "৾", "ઁ", "ં", "઼", "ુ", "ૂ", "ૃ", "ૄ", "ૅ", "ે", "ૈ", "્", "ૢ", "ૣ", "ૺ",
   "ૻ", "ૼ", "૽", "૾", "૿", "ஂ", "ீ", "்", "ಁ", "಼", "ಿ", "ೆ", "ೌ", "್", "ೢ", "ೣ",
   "ඁ", "්", "ි", "ී", "ු", "ූ", "ັ", "ິ", "ີ", "ຶ", "ື", "ຸ", "ູ", "຺", "ົ", "ຼ",
   "ໆ", "່", "້", "໊", "໋", "໌", "ໍ", "ྀ", "ཱྀ", "ྂ", "ྃ", "྄", "྆", "྇", "ྍ", "ྎ",
   "ྏ", "ྐ", "ྑ", "ྒ", "ྒྷ", "ྔ", "ྕ", "ྖ", "ྗ", "ྙ", "ྚ", "ྛ", "ྜ", "ྜྷ", "ྞ", "ྟ",
   "ྠ", "ྡ", "ྡྷ", "ྣ", "ྤ", "ྥ", "ྦ", "ྦྷ", "ྨ", "ྩ", "ྪ", "ྫ", "ྫྷ", "ྭ", "ྮ", "ྯ",
   "ྰ", "ྱ", "ྲ", "ླ", "ྴ", "ྵ", "ྶ", "ྷ", "ྸ", "ྐྵ", "ྺ", "ྻ", "ྼ", "࿆", "ႂ", "ႅ",
   "ႆ", "ႍ", "ႝ", "ჼ", "឴", "឵", "ិ", "ី", "ឹ", "ឺ", "ុ", "ូ", "ួ", "ំ", "៉", "៊",
   "់", "៌", "៍", "៎", "៏", "័", "៑", "្", "៓", "ៗ", "៝", "ᢅ", "ᢆ", "ᢩ", "ᪧ", "᪰",
   "᪱", "᪲", "᪳", "᪴", "᪵", "᪶", "᪷", "᪸", "᪹", "᪺", "᪻", "᪼", "᪽", "᪾", "ᪿ", "ᫀ",
   "᫁", "᫂", "᫃", "᫄", "᫅", "᫆", "᫇", "᫈", "᫉", "᫊", "᫋", "ᫌ", "ᫍ", "ᫎ", "ᮀ", "ᮁ",
   "ᮢ", "ᮣ", "ᮤ", "ᮥ", "ᮨ", "ᮩ", "᮫", "ᮬ", "ᮭ", "᯦", "ᯨ", "ᯩ", "ᯭ", "ᯯ", "ᯰ", "ᯱ",
   "᳐", "᳑", "᳒", "᳔", "᳕", "᳖", "᳗", "᳘", "᳙", "᳚", "᳛", "᳜", "᳝", "᳞", "᳟", "᳠",
   "᳢", "᳣", "᳤", "᳥", "᳦", "᳧", "᳨", "᳭", "᳴", "᳸", "᳹", "ᶛ", "ᶜ", "ᶝ", "ᶞ", "ᶟ",
   "ᶠ", "ᶡ", "ᶢ", "ᶣ", "ᶤ", "ᶥ", "ᶦ", "ᶧ", "ᶨ", "ᶩ", "ᶪ", "ᶫ", "ᶬ", "ᶭ", "ᶮ", "ᶯ",
   "ᶰ", "ᶱ", "ᶲ", "ᶳ", "ᶴ", "ᶵ", "ᶶ", "ᶷ", "ᶸ", "ᶹ", "ᶺ", "ᶻ", "ᶼ", "ᶽ", "ᶾ", "ᶿ",
   "᷀", "᷁", "᷂", "᷃", "᷄", "᷅", "᷆", "᷇", "᷈", "᷉", "᷊", "᷋", "᷌", "᷍", "᷎", "᷏",
   "᷐", "᷑", "᷒", "ᷓ", "ᷔ", "ᷕ", "ᷖ", "ᷗ", "ᷘ", "ᷙ", "ᷚ", "ᷛ", "ᷜ", "ᷝ", "ᷞ", "ᷟ",
   "ᷠ", "ᷡ", "ᷢ", "ᷣ", "ᷤ", "ᷥ", "ᷦ", "ᷧ", "ᷨ", "ᷩ", "ᷪ", "ᷫ", "ᷬ", "ᷭ", "ᷮ", "ᷯ",
   "ᷰ", "ᷱ", "ᷲ", "ᷳ", "ᷴ", "᷵", "᷶", "᷷", "᷸", "᷹", "᷺", "᷻", "᷼", "᷽", "᷾", "᷿",
   "᾽", "᾿", "῀", "῁", "῍", "῎", "῏", "῝", "῞", "῟", "῭", "΅", "`", "´", "῾", "ₐ",
   "ₑ", "ₒ", "ₓ", "ₔ", "ₕ", "ₖ", "ₗ", "ₘ", "ₙ", "ₚ", "ₛ", "ₜ", "⃐", "⃑", "⃒", "⃓",
   "⃔", "⃕", "⃖", "⃗", "⃘", "⃙", "⃚", "⃛", "⃜", "⃝", "⃞", "⃟", "⃠", "⃡", "⃢", "⃣",
   "⃤", "⃥", "⃦", "⃧", "⃨", "⃩", "⃪", "⃫", "⃬", "⃭", "⃮", "⃯", "⃰", "⳯", "⳰", "⳱",
   "ⷠ", "ⷡ", "ⷢ", "ⷣ", "ⷤ", "ⷥ", "ⷦ", "ⷧ", "ⷨ", "ⷩ", "ⷪ", "ⷫ", "ⷬ", "ⷭ", "ⷮ", "ⷯ",
   "ⷰ", "ⷱ", "ⷲ", "ⷳ", "ⷴ", "ⷵ", "ⷶ", "ⷷ", "ⷸ", "ⷹ", "ⷺ", "ⷻ", "ⷼ", "ⷽ", "ⷾ", "ⷿ",
   "゙", "゚", "゛", "゜", "ゝ", "ゞ", "ー", "ヽ", "ヾ", "ꓸ", "ꓹ", "ꓺ", "ꓻ", "ꓼ", "ꓽ", "ꚜ",
   "ꚝ", "ꚞ", "ꚟ", "꛰", "꛱", "ꞈ", "꞉", "꞊", "ꟲ", "ꟳ", "ꟴ", "ꟸ", "ꟹ", "꣄", "ꣅ", "꣠",
   "꣡", "꣢", "꣣", "꣤", "꣥", "꣦", "꣧", "꣨", "꣩", "꣪", "꣫", "꣬", "꣭", "꣮", "꣯", "꣰",
   "꣱", "ꣿ", "ꦀ", "ꦁ", "ꦂ", "꦳", "ꦶ", "ꦷ", "ꦸ", "ꦹ", "ꦼ", "ꦽ", "ꧏ", "ꧥ", "ꧦ", "ꪰ",
   "ꪲ", "ꪳ", "ꪴ", "ꪷ", "ꪸ", "ꪾ", "꪿", "꫁", "ꫝ", "ꫬ", "ꫭ", "ꫳ", "ꫴ", "꫶", "ꯥ", "ꯨ",
   "꯭", "﮲", "﮳", "﮴", "﮵", "﮶", "﮷", "﮸", "﮹", "﮺", "﮻", "﮼", "﮽", "﮾", "﮿", "﯀",
   "﯁", "﯂", "﻿", "ﾞ", "ﾟ", "￣", "￹", "￺", "￻"}

\* The capital sigma at position i of s ends a word: a cased character
\* precedes it and none follows it, case-ignorable characters skipped
FinalSigma(s, pos) ==
  /\ \E j \in 1..(pos - 1) :
       s[j] \in CasedChars /\ \A k \in (j + 1)..(pos - 1) : s[k] \in CaseIgnorable
  /\ ~\E j \in (pos + 1)..Len(s) :
       s[j] \in CasedChars /\ \A k \in (pos + 1)..(j - 1) : s[k] \in CaseIgnorable

\* str.lower()
Lower(s) ==
  [pos \in 1..Len(s) |-> IF s[pos] = "Σ" /\ FinalSigma(s, pos) THEN "ς" ELSE LowerChar(s[pos])]

\* The characters c with c.isspace(): the controls 09 to 0D and 1C to 1F,
\* the space, and of the others NEL (85), the no-break space (A0) and the
\* ogham space mark (1680)
SpaceChars ==
  {"\t", "\n", "", "\f", "\r", "", "", "", "", " ", "", " ", " "}

\* str.isspace for one character
IsSpace(c) == c \in SpaceChars

\* The characters c with c.isdigit(): the decimal digits and the digits
\* that are no decimals, such as the superscript two
DigitChars ==
  {"0", "1", "2", "3", "4", "5", "6", "7", "8", "9", "²", "³", "¹", "۰", "۱", "۲",
   "۳", "۴", "۵", "۶", "۷", "۸", "۹", "߀", "߁", "߂", "߃", "߄", "߅", "߆", "߇", "߈",
   "߉", "০", "১", "২", "৩", "৪", "৫", "৬", "৭", "৮", "৯", "૦", "૧", "૨", "૩", "૪",
   "૫", "૬", "૭", "૮", "૯", "௦", "௧", "௨", "௩", "௪", "௫", "௬", "௭", "௮", "௯", "೦",
   "೧", "೨", "೩", "೪", "೫", "೬", "೭", "೮", "೯", "෦", "෧", "෨", "෩", "෪", "෫", "෬",
   "෭", "෮", "෯", "໐", "໑", "໒", "໓", "໔", "໕", "໖", "໗", "໘", "໙", "႐", "႑", "႒",
   "႓", "႔", "႕", "႖", "႗", "႘", "႙", "០", "១", "២", "៣", "៤", "៥", "៦", "៧", "៨",
   "៩", "᧐", "᧑", "᧒", "᧓", "᧔", "᧕", "᧖", "᧗", "᧘", "᧙", "᧚", "᪀", "᪁", "᪂", "᪃",
   "᪄", "᪅", "᪆", "᪇", "᪈", "᪉", "᪐", "᪑", "᪒", "᪓", "᪔", "᪕", "᪖", "᪗", "᪘", "᪙",
   "᮰", "᮱", "᮲", "᮳", "᮴", "᮵", "᮶", "᮷", "᮸", "᮹", "₀", "₁", "₂", "₃", "₄", "₅",
   "₆", "₇", "₈", "₉", "⒈", "⒉", "⒊", "⒋", "⒌", "⒍", "⒎", "⒏", "⒐", "⓪", "⓵", "⓶",
   "⓷", "⓸", "⓹", "⓺", "⓻", "⓼", "⓽", "⓿", "➀", "➁", "➂", "➃", "➄", "➅", "➆", "➇",
   "➈", "➊", "➋", "➌", "➍", "➎", "➏", "➐", "➑", "➒", "꣐", "꣑", "꣒", "꣓", "꣔", "꣕",
   "꣖", "꣗", "꣘", "꣙", "꧐", "꧑", "꧒", "꧓", "꧔", "꧕", "꧖", "꧗", "꧘", "꧙", "꧰", "꧱",
   "꧲", "꧳", "꧴", "꧵", "꧶", "꧷", "꧸", "꧹", "꯰", "꯱", "꯲", "꯳", "꯴", "꯵", "꯶", "꯷",
   "꯸", "꯹"}

\* str.isdigit for one character
IsDigit(c) == c \in DigitChars

Digits == <<"0","1","2","3","4","5","6","7","8","9">>

\* The decimal digits (category Nd) of each script, zero to nine
DecimalChars ==
  <<<<"0","1","2","3","4","5","6","7","8","9">>,
    <<"۰","۱","۲","۳","۴","۵","۶","۷","۸","۹">>,
    <<"߀","߁","߂","߃","߄","߅","߆","߇","߈","߉">>,
    <<"০","১","২","৩","৪","৫","৬","৭","৮","৯">>,
    <<"૦","૧","૨","૩","૪","૫","૬","૭","૮","૯">>,
    <<"௦","௧","௨","௩","௪","௫","௬","௭","௮","௯">>,
    <<"೦","೧","೨","೩","೪","೫","೬","೭","೮","೯">>,
    <<"෦","෧","෨","෩","෪","෫","෬","෭","෮","෯">>,
    <<"໐","໑","໒","໓","໔","໕","໖","໗","໘","໙">>,
    <<"႐","႑","႒","႓","႔","႕","႖","႗","႘","႙">>,
    <<"០","១","២","៣","៤","៥","៦","៧","៨","៩">>,
    <<"᧐","᧑","᧒","᧓","᧔","᧕","᧖","᧗","᧘","᧙">>,
    <<"᪀","᪁","᪂","᪃","᪄","᪅","᪆","᪇","᪈","᪉">>,
    <<"᪐","᪑","᪒","᪓","᪔","᪕","᪖","᪗","᪘","᪙">>,
    <<"᮰","᮱","᮲","᮳","᮴","᮵","᮶","᮷","᮸","᮹">>,
    <<"꣐","꣑","꣒","꣓","꣔","꣕","꣖","꣗","꣘","꣙">>,
    <<"꧐","꧑","꧒","꧓","꧔","꧕","꧖","꧗","꧘","꧙">>,
    <<"꧰","꧱","꧲","꧳","꧴","꧵","꧶","꧷","꧸","꧹">>,
    <<"꯰","꯱","꯲","꯳","꯴","꯵","꯶","꯷","꯸","꯹">>>>

DecimalSet == {DecimalChars[r][pos] : r \in DOMAIN DecimalChars, pos \in 1..10}

\* str.isdecimal for one character, \d of a str pattern
IsDecimal(c) == c \in DecimalSet

\* The value of a decimal digit
DigitVal(c) == (CHOOSE pos \in 1..10 : \E r \in DOMAIN DecimalChars : DecimalChars[r][pos] = c) - 1

\* s[lo..hi] for the set keep of the positions of s to keep, <<>> if none
Between(s, keep) ==
  IF keep = {} THEN <<>>
  ELSE SubSeq(s, CHOOSE pos \in keep : \A j \in keep : pos <= j,
                 CHOOSE pos \in keep : \A j \in keep : j <= pos)

\* str.strip()
Strip(s) == Between(s, {pos \in 1..Len(s) : ~IsSpace(s[pos])})

\* re.sub(r'[^\d.\-]', '', s): keep digits, '.' and '-'
KeepNumericChars(s) == SelectSeq(s, LAMBDA c : IsDecimal(c) \/ c = "." \/ c = "-")

None == [t |-> "null"]

\* ------------------------------------------------------------------------
\* float(str)
\* ------------------------------------------------------------------------
\* A float is an integer count of hundredths when it is a whole number of
\* hundredths below ten million, [t |-> "inf", neg |-> ...] for an infinity,
\* [t |-> "nan"] for a NaN, and otherwise the decimal that was written,
\* [t |-> "float", neg, digits, exp] for digits * 10^exp, the digits free of
\* leading and trailing zeros.  The rounding of such a decimal to the
\* nearest double is not computed, except at the two ends of the range.

RECURSIVE IntOf(_)
\* The number written by the digits d
IntOf(d) == IF d = <<>> THEN 0
            ELSE 10 * IntOf(SubSeq(d, 1, Len(d) - 1)) + DigitVal(d[Len(d)])

RECURSIVE Pow10(_)
Pow10(n) == IF n = 0 THEN 1 ELSE 10 * Pow10(n - 1)

\* The digits of 2^1024 - 2^970 = 1.797...e308, halfway between the largest
\* double and 2^1024: a decimal from there on rounds to an infinity
HalfwayToInf ==
  <<"1","7","9","7","6","9","3","1","3","4","8","6","2","3","1","5","8","0","7","9","3","7","2","8","9",
    "7","1","4","0","5","3","0","3","4","1","5","0","7","9","9","3","4","1","3","2","7","1","0","0","3",
    "7","8","2","6","9","3","6","1","7","3","7","7","8","9","8","0","4","4","4","9","6","8","2","9","2",
    "7","6","4","7","5","0","9","4","6","6","4","9","0","1","7","9","7","7","5","8","7","2","0","7","0",
    "9","6","3","3","0","2","8","6","4","1","6","6","9","2","8","8","7","9","1","0","9","4","6","5","5",
    "5","5","4","7","8","5","1","9","4","0","4","0","2","6","3","0","6","5","7","4","8","8","6","7","1",
    "5","0","5","8","2","0","6","8","1","9","0","8","9","0","2","0","0","0","7","0","8","3","8","3","6",
    "7","6","2","7","3","8","5","4","8","4","5","8","1","7","7","1","1","5","3","1","7","6","4","4","7",
    "5","7","3","0","2","7","0","0","6","9","8","5","5","5","7","1","3","6","6","9","5","9","6","2","2",
    "8","4","2","9","1","4","8","1","9","8","6","0","8","3","4","9","3","6","4","7","5","2","9","2","7",
    "1","9","0","7","4","1","6","8","4","4","4","3","6","5","5","1","0","7","0","4","3","4","2","7","1",
    "1","5","5","9","6","9","9","5","0","8","0","9","3","0","4","2","8","8","0","1","7","7","9","0","4",
    "1","7","4","4","9","7","7","9","2">>

\* The digits of 2^-1075 = 2.470...e-324, half the smallest double: a
\* decimal up to there rounds to zero
HalfOfSmallest ==
  <<"2","4","7","0","3","2","8","2","2","9","2","0","6","2","3","2","7","2","0","8","8","2","8","4","3",
    "9","6","4","3","4","1","1","0","6","8","6","1","8","2","5","2","9","9","0","1","3","0","7","1","6",
    "2","3","8","2","2","1","2","7","9","2","8","4","1","2","5","0","3","3","7","7","5","3","6","3","5",
    "1","0","4","3","7","5","9","3","2","6","4","9","9","1","8","1","8","0","8","1","7","9","9","6","1",
    "8","9","8","9","8","2","8","2","3","4","7","7","2","2","8","5","8","8","6","5","4","6","3","3","2",
    "8","3","5","5","1","7","7","9","6","9","8","9","8","1","9","9","3","8","7","3","9","8","0","0","5",
    "3","9","0","9","3","9","0","6","3","1","5","0","3","5","6","5","9","5","1","5","5","7","0","2","2",
    "6","3","9","2","2","9","0","8","5","8","3","9","2","4","4","9","1","0","5","1","8","4","4","3","5",
    "9","3","1","8","0","2","8","4","9","9","3","6","5","3","6","1","5","2","5","0","0","3","1","9","3",
    "7","0","4","5","7","6","7","8","2","4","9","2","1","9","3","6","5","6","2","3","6","6","9","8","6",
    "3","6","5","8","4","8","0","7","5","7","0","0","1","5","8","5","7","6","9","2","6","9","9","0","3",
    "7","0","6","3","1","1","9","2","8","2","7","9","5","5","8","5","5","1","3","3","2","9","2","7","8",
    "3","4","3","3","8","4","0","9","3","5","1","9","7","8","0","1","5","5","3","1","2","4","6","5","9",
    "7","2","6","3","5","7","9","5","7","4","6","2","2","7","6","6","4","6","5","2","7","2","8","2","7",
    "2","2","0","0","5","6","3","7","4","0","0","6","4","8","5","4","9","9","9","7","7","0","9","6","5",
    "9","9","4","7","0","4","5","4","0","2","0","8","2","8","1","6","6","2","2","6","2","3","7","8","5",
    "7","3","9","3","4","5","0","7","3","6","3","3","9","0","0","7","9","6","7","7","6","1","9","3","0",
    "5","7","7","5","0","6","7","4","0","1","7","6","3","2","4","6","7","3","6","0","0","9","6","8","9",
    "5","1","3","4","0","5","3","5","5","3","7","4","5","8","5","1","6","6","6","1","1","3","4","2","2",
    "3","7","6","6","6","7","8","6","0","4","1","6","2","1","5","9","6","8","0","4","6","1","9","1","4",
    "4","6","7","2","9","1","8","4","0","3","0","0","5","3","0","0","5","7","5","3","0","8","4","9","0",
    "4","8","7","6","5","3","9","1","7","1","1","3","8","6","5","9","1","6","4","6","2","3","9","5","2",
    "4","9","1","2","6","2","3","6","5","3","8","8","1","8","7","9","6","3","6","2","3","9","3","7","3",
    "2","8","0","4","2","3","8","9","1","0","1","8","6","7","2","3","4","8","4","9","7","6","6","8","2",
    "3","5","0","8","9","8","6","3","3","8","8","5","8","7","9","2","5","6","2","8","3","0","2","7","5",
    "5","9","9","5","6","5","7","5","2","4","4","5","5","5","0","7","2","5","5","1","8","9","3","1","3",
    "6","9","0","8","3","6","2","5","4","7","7","9","1","8","6","9","4","8","6","6","7","9","9","4","9",
    "6","8","3","2","4","0","4","9","7","0","5","8","2","1","0","2","8","5","1","3","1","8","5","4","5",
    "1","3","9","6","2","1","3","8","3","7","7","2","2","8","2","6","1","4","5","4","3","7","6","9","3",
    "4","1","2","5","3","2","0","9","8","5","9","1","3","2","7","6","6","7","2","3","6","3","2","8","1",
    "2","5">>

DigitAt(d, k) == IF k <= Len(d) THEN DigitVal(d[k]) ELSE 0

\* 0.a < 0.b for the digit sequences a and b
DigitsBelow(a, b) ==
  \E k \in 1..(Len(a) + Len(b)) :
    /\ DigitAt(a, k) < DigitAt(b, k)
    /\ \A j \in 1..(k - 1) : DigitAt(a, j) = DigitAt(b, j)

\* The float written by the digits ip before and fp after the decimal point
\* and the exponent e
FloatOfParts(neg, ip, fp, e) ==
  LET all  == ip \o fp
      nz   == {pos \in 1..Len(all) : all[pos] # "0"}
      d    == Between(all, nz)
      last == CHOOSE pos \in nz : \A j \in nz : j <= pos
      exp  == e - Len(fp) + (Len(all) - last)
      adj  == Len(d) + exp - 1
  IN  IF nz = {} THEN 0
      ELSE IF adj > 308 \/ (adj = 308 /\ ~DigitsBelow(d, HalfwayToInf))
      THEN [t |-> "inf", neg |-> neg]
      ELSE IF adj < -324 \/ (adj = -324 /\ ~DigitsBelow(HalfOfSmallest, d)) THEN 0
      ELSE IF exp >= -2 /\ adj <= 6
      THEN (IF neg THEN -1 ELSE 1) * IntOf(d) * Pow10(exp + 2)
      ELSE [t |-> "float", neg |-> neg, digits |-> d, exp |-> exp]

AsciiDigits == {Digits[pos] : pos \in 1..10}

\* The end of the run of digits of s that starts at position from
RunEnd(s, from) ==
  CHOOSE k \in (from - 1)..Len(s) :
    /\ \A j \in from..k : s[j] \in AsciiDigits
    /\ k = Len(s) \/ s[k + 1] \notin AsciiDigits

\* MAX_ABS_EXP of CPython's dtoa.c
MaxAbsExp == 1100000000

\* The exponent CPython reads from the digits ed: the number written, or
\* MAX_ABS_EXP when it is larger or has more than 9 digits after its
\* leading zeros
ExponentOf(ed) ==
  IF Len(Between(ed, {pos \in 1..Len(ed) : ed[pos] # "0"} \cup {Len(ed)})) > 9
  THEN MaxAbsExp
  ELSE IF IntOf(ed) > MaxAbsExp THEN MaxAbsExp ELSE IntOf(ed)

RECURSIVE RustExponentFrom(_, _, _)
\* The digits of ed from position k on, read into acc
RustExponentFrom(ed, k, acc) ==
  IF k > Len(ed) THEN acc
  ELSE RustExponentFrom(ed, k + 1, IF acc < 65536 THEN 10 * acc + DigitVal(ed[k]) ELSE acc)

\* The exponent Rust's dec2flt reads from the digits ed: a digit is taken
\* in while the exponent read so far is below 0x10000
RustExponentOf(ed) == RustExponentFrom(ed, 1, 0)

\* The exponent written with the digits ed, as CPython reads it or, for
\* rust, as Rust does
ExponentRead(ed, rust) == IF rust THEN RustExponentOf(ed) ELSE ExponentOf(ed)

\* An unsigned body: digits, an optional point and digits, an optional
\* exponent; at least one digit before the exponent
FloatOfBody(neg, body, rust) ==
  LET a   == RunEnd(body, 1)
      dot == a < Len(body) /\ body[a + 1] = "."
      b   == IF dot THEN RunEnd(body, a + 2) ELSE a
      sgn == b + 2 <= Len(body) /\ body[b + 2] \in {"+", "-"}
      ed  == SubSeq(body, IF sgn THEN b + 3 ELSE b + 2, Len(body))
      ip  == SubSeq(body, 1, a)
      fp  == SubSeq(body, a + 2, b)
  IN  IF Len(ip) + Len(fp) = 0 THEN [ok |-> FALSE]
      ELSE IF b = Len(body) THEN [ok |-> TRUE, v |-> FloatOfParts(neg, ip, fp, 0)]
      ELSE IF /\ body[b + 1] \in {"e", "E"}
              /\ ed # <<>>
              /\ \A pos \in 1..Len(ed) : ed[pos] \in AsciiDigits
      THEN [ok |-> TRUE,
            v |-> FloatOfParts(neg, ip, fp, IF sgn /\ body[b + 2] = "-"
                                            THEN 0 - ExponentRead(ed, rust)
                                            ELSE ExponentRead(ed, rust))]
      ELSE [ok |-> FALSE]

\* An optional sign, then "inf", "infinity" or "nan" in any case, or a body
FloatOfSigned(s, rust) ==
  LET neg  == Len(s) > 0 /\ s[1] = "-"
      body == IF Len(s) > 0 /\ s[1] \in {"-", "+"} THEN Tail(s) ELSE s
  IN  IF Lower(body) \in {<<"i", "n", "f">>, <<"i", "n", "f", "i", "n", "i", "t", "y">>}
      THEN [ok |-> TRUE, v |-> [t |-> "inf", neg |-> neg]]
      ELSE IF Lower(body) = <<"n", "a", "n">> THEN [ok |-> TRUE, v |-> [t |-> "nan"]]
      ELSE FloatOfBody(neg, body, rust)

\* An underscore may only stand between two digits, and is then dropped
FloatOfStripped(s) ==
  IF \A k \in 1..Len(s) :
       s[k] = "_" => /\ 1 < k /\ k < Len(s)
                     /\ s[k - 1] \in AsciiDigits /\ s[k + 1] \in AsciiDigits
  THEN FloatOfSigned(SelectSeq(s, LAMBDA c : c # "_"), FALSE)
  ELSE [ok |-> FALSE]

\* The whitespace float() strips: str.isspace without the separators
\* \x1c to \x1f, which is also the White_Space that Rust's str::trim strips
FloatSpace(c) == IsSpace(c) /\ c \notin {"", "", "", ""}

FloatTrim(s) == Between(s, {pos \in 1..Len(s) : ~FloatSpace(s[pos])})

\* A decimal digit of any script counts as its ASCII digit
ToAscii(s) == [pos \in 1..Len(s) |-> IF IsDecimal(s[pos]) THEN Digits[DigitVal(s[pos]) + 1] ELSE s[pos]]

\* float(s) for a str s: [ok |-> TRUE, v |-> the float], or [ok |-> FALSE]
\* for ValueError
PyFloat(s) == FloatOfStripped(ToAscii(FloatTrim(s)))

\* ------------------------------------------------------------------------
\* Arithmetic of floats (IEEE 754 binary64, round to nearest, ties to even)
\* ------------------------------------------------------------------------
\* A natural number of any size is the sequence of its digits in base 128,
\* the least significant first and the most significant not 0; 0 is <<>>.
\* A float is [t |-> "double", neg, m, e] for (-1)^neg * m * 2^e with a
\* natural m of exactly 53 bits, or with m = <<>> for 0.0.  The numbers of
\* the model are far from the ends of the range of a float, so that no
\* operation overflows or gives a subnormal.

LimbBits == 7

LimbBase == 2^LimbBits

MantissaBits == 53

\* The bits by which a dividend is extended, for a divisor below 2^24
DivisionBits == 12 * LimbBits

RECURSIVE NatOfInt(_)
\* The natural number n >= 0 of TLA+
NatOfInt(n) == IF n = 0 THEN <<>> ELSE <<n % LimbBase>> \o NatOfInt(n \div LimbBase)

RECURSIVE IntOfNat(_)
IntOfNat(a) == IF a = <<>> THEN 0 ELSE Head(a) + LimbBase * IntOfNat(Tail(a))

LimbAt(a, k) == IF k <= Len(a) THEN a[k] ELSE 0

\* a without its most significant digits 0
TrimNat(a) ==
  IF \A k \in 1..Len(a) : a[k] = 0 THEN <<>>
  ELSE SubSeq(a, 1, CHOOSE k \in 1..Len(a) : a[k] # 0 /\ \A j \in (k + 1)..Len(a) : a[j] = 0)

RECURSIVE AddFrom(_, _, _, _, _)
\* a + b from digit k on, with the carry into digit k, after the digits acc
AddFrom(a, b, k, carry, acc) ==
  IF k > Len(a) /\ k > Len(b) THEN (IF carry = 0 THEN acc ELSE Append(acc, carry))
  ELSE AddFrom(a, b, k + 1, (LimbAt(a, k) + LimbAt(b, k) + carry) \div LimbBase,
               Append(acc, (LimbAt(a, k) + LimbAt(b, k) + carry) % LimbBase))

AddNat(a, b) == AddFrom(a, b, 1, 0, <<>>)

RECURSIVE SubFrom(_, _, _, _, _)
SubFrom(a, b, k, borrow, acc) ==
  IF k > Len(a) THEN TrimNat(acc)
  ELSE SubFrom(a, b, k + 1, IF a[k] - LimbAt(b, k) - borrow < 0 THEN 1 ELSE 0,
               Append(acc, (a[k] - LimbAt(b, k) - borrow + LimbBase) % LimbBase))

\* a - b for a >= b
SubNat(a, b) == SubFrom(a, b, 1, 0, <<>>)

RECURSIVE MulFrom(_, _, _, _, _)
MulFrom(a, x, k, carry, acc) ==
  IF k > Len(a) THEN TrimNat(acc \o NatOfInt(carry))
  ELSE MulFrom(a, x, k + 1, (a[k] * x + carry) \div LimbBase,
               Append(acc, (a[k] * x + carry) % LimbBase))

\* a * x for 0 <= x < 2^24
MulSmall(a, x) == MulFrom(a, x, 1, 0, <<>>)

RECURSIVE DivFrom(_, _, _, _, _)
DivFrom(a, d, k, r, acc) ==
  IF k = 0 THEN [q |-> TrimNat(acc), r |-> r]
  ELSE DivFrom(a, d, k - 1, (r * LimbBase + a[k]) % d,
               <<(r * LimbBase + a[k]) \div d>> \o acc)

\* [q |-> a \div d, r |-> a % d] for 0 < d < 2^24
DivSmall(a, d) == DivFrom(a, d, Len(a), 0, <<>>)

\* a < b
LessNat(a, b) ==
  \/ Len(a) < Len(b)
  \/ /\ Len(a) = Len(b)
     /\ \E k \in 1..Len(a) : a[k] < b[k] /\ \A j \in (k + 1)..Len(a) : a[j] = b[j]

\* The number of bits of a
BitLen(a) ==
  IF a = <<>> THEN 0
  ELSE LimbBits * (Len(a) - 1)
       + (CHOOSE n \in 1..LimbBits : 2^(n - 1) <= a[Len(a)] /\ a[Len(a)] < 2^n)

\* a * 2^n
ShiftLeft(a, n) ==
  IF a = <<>> THEN <<>>
  ELSE [k \in 1..(n \div LimbBits) |-> 0] \o MulSmall(a, 2^(n % LimbBits))

\* a \div 2^n
ShiftRight(a, n) ==
  IF n \div LimbBits >= Len(a) THEN <<>>
  ELSE DivSmall(SubSeq(a, (n \div LimbBits) + 1, Len(a)), 2^(n % LimbBits)).q

Double(neg, m, e) == [t |-> "double", neg |-> neg, m |-> m, e |-> e]

\* 0.0
Float0 == Double(FALSE, <<>>, 0)

\* m * 2^e for an m of 53 or 54 bits
Carried(neg, m, e) ==
  IF BitLen(m) > MantissaBits THEN Double(neg, ShiftRight(m, 1), e + 1)
  ELSE Double(neg, m, e)

\* The float nearest to n * 2^e = (q * 2^d + rest) * 2^e, or to a little
\* more when sticky; half is 2^(d - 1)
RoundedUp(neg, q, rest, half, d, e, sticky) ==
  Carried(neg,
          IF LessNat(half, rest) \/ (rest = half /\ (sticky \/ q[1] % 2 = 1))
          THEN AddNat(q, <<1>>) ELSE q,
          e + d)

RoundedAt(neg, n, q, d, e, sticky) ==
  RoundedUp(neg, q, SubNat(n, ShiftLeft(q, d)), ShiftLeft(<<1>>, d - 1), d, e, sticky)

\* The float nearest to n * 2^e for a natural n and, when sticky, to a
\* number between n * 2^e and (n + 1) * 2^e, n then of 55 bits or more
RoundNat(neg, n, e, sticky) ==
  IF n = <<>> THEN Float0
  ELSE IF BitLen(n) <= MantissaBits
  THEN Double(neg, ShiftLeft(n, MantissaBits - BitLen(n)), e - (MantissaBits - BitLen(n)))
  ELSE RoundedAt(neg, n, ShiftRight(n, BitLen(n) - MantissaBits), BitLen(n) - MantissaBits,
                 e, sticky)

RoundQuotient(neg, qr, e) == RoundNat(neg, qr.q, e, qr.r # 0)

\* The float nearest to n / d for integers n and d, 0 < d < 2^24: the float
\* a decimal such as 0.155 = 155 / 1000 is read as, and n / d of two ints
FloatOfRatio(n, d) ==
  RoundQuotient(n < 0,
                DivSmall(ShiftLeft(NatOfInt(IF n < 0 THEN 0 - n ELSE n), DivisionBits), d),
                0 - DivisionBits)

\* x / c for a float x and an int c, 0 < c < 2^24
FloatDiv(x, c) ==
  RoundQuotient(x.neg, DivSmall(ShiftLeft(x.m, DivisionBits), c), x.e - DivisionBits)

\* k * x for an int k, 0 <= k < 2^24, and a float x
FloatMul(k, x) == RoundNat(x.neg, MulSmall(x.m, k), x.e, FALSE)

\* The sum of (-1)^an * a * 2^e and (-1)^bn * b * 2^e
AddAligned(an, a, bn, b, e) ==
  IF an = bn THEN RoundNat(an, AddNat(a, b), e, FALSE)
  ELSE IF LessNat(a, b) THEN RoundNat(bn, SubNat(b, a), e, FALSE)
  ELSE RoundNat(an, SubNat(a, b), e, FALSE)

\* x + y
FloatAdd(x, y) ==
  IF x.m = <<>> THEN y
  ELSE IF y.m = <<>> THEN x
  ELSE IF x.e <= y.e THEN AddAligned(x.neg, x.m, y.neg, ShiftLeft(y.m, y.e - x.e), x.e)
  ELSE AddAligned(x.neg, ShiftLeft(x.m, x.e - y.e), y.neg, y.m, y.e)

\* int(x): the float without its fraction
Truncated(x) ==
  (IF x.neg THEN -1 ELSE 1)
  * IntOfNat(IF x.e >= 0 THEN ShiftLeft(x.m, x.e) ELSE ShiftRight(x.m, 0 - x.e))

\* The integer nearest to n / 2^d = q + rest / 2^d, the even one of two
NearestOf(q, rest, half) ==
  IntOfNat(q) + (IF LessNat(half, rest) \/ (rest = half /\ IntOfNat(q) % 2 = 1) THEN 1 ELSE 0)

NearestAt(n, q, d) == NearestOf(q, SubNat(n, ShiftLeft(q, d)), ShiftLeft(<<1>>, d - 1))

\* round(x, 2) in hundredths: the decimal of two places nearest to the
\* float itself, which is seldom the decimal it was written as
Round2(x) ==
  (IF x.neg THEN -1 ELSE 1)
  * (IF x.e >= 0 THEN IntOfNat(ShiftLeft(MulSmall(x.m, 100), x.e))
     ELSE NearestAt(MulSmall(x.m, 100), ShiftRight(MulSmall(x.m, 100), 0 - x.e), 0 - x.e))

\* ------------------------------------------------------------------------
\* MARKER_ALIASES and normalize_marker_name
\* ------------------------------------------------------------------------

\* A table in which a canonical name is in turn an alias of another name
ChainedAliases ==
  << <<<<"s", "u", "g", "a", "r">>, <<"B", "l", "o", "o", "d", " ", "S", "u", "g", "a", "r">>>>,
     <<<<"b", "l", "o", "o", "d", " ", "s", "u", "g", "a", "r">>, <<"G", "l", "u", "c", "o", "s", "e">>>> >>

MARKER_ALIASES ==
  <<
    << <<"w", "b", "c">>,
       <<"W", "h", "i", "t", "e", " ", "B", "l", "o", "o", "d", " ", "C", "e", "l", "l", "s">> >>,  \* "wbc": "White Blood Cells"
    << <<"r", "b", "c">>,
       <<"R", "e", "d", " ", "B", "l", "o", "o", "d", " ", "C", "e", "l", "l", "s">> >>,  \* "rbc": "Red Blood Cells"
    << <<"h", "g", "b">>,
       <<"H", "e", "m", "o", "g", "l", "o", "b", "i", "n">> >>,  \* "hgb": "Hemoglobin"
    << <<"h", "b">>,
       <<"H", "e", "m", "o", "g", "l", "o", "b", "i", "n">> >>,  \* "hb": "Hemoglobin"
    << <<"h", "c", "t">>,
       <<"H", "e", "m", "a", "t", "o", "c", "r", "i", "t">> >>,  \* "hct": "Hematocrit"
    << <<"p", "l", "t">>,
       <<"P", "l", "a", "t", "e", "l", "e", "t", "s">> >>,  \* "plt": "Platelets"
    << <<"m", "c", "v">>,
       <<"M", "C", "V">> >>,  \* "mcv": "MCV"
    << <<"m", "c", "h">>,
       <<"M", "C", "H">> >>,  \* "mch": "MCH"
    << <<"m", "c", "h", "c">>,
       <<"M", "C", "H", "C">> >>,  \* "mchc": "MCHC"
    << <<"r", "d", "w">>,
       <<"R", "D", "W">> >>,  \* "rdw": "RDW"
    << <<"m", "p", "v">>,
       <<"M", "P", "V">> >>,  \* "mpv": "MPV"
    << <<"g", "l", "u", "c", "o", "s", "e">>,
       <<"G", "l", "u", "c", "o", "s", "e">> >>,  \* "glucose": "Glucose"
    << <<"g", "l", "u", "c">>,
       <<"G", "l", "u", "c", "o", "s", "e">> >>,  \* "gluc": "Glucose"
    << <<"f", "a", "s", "t", "i", "n", "g", " ", "g", "l", "u", "c", "o", "s", "e">>,
       <<"G", "l", "u", "c", "o", "s", "e", " ", "(", "F", "a", "s", "t", "i", "n", "g", ")">> >>,  \* "fasting glucose": "Glucose (Fasting)"
    << <<"b", "u", "n">>,
       <<"B", "U", "N">> >>,  \* "bun": "BUN"
    << <<"c", "r", "e", "a", "t", "i", "n", "i", "n", "e">>,
       <<"C", "r", "e", "a", "t", "i", "n", "i", "n", "e">> >>,  \* "creatinine": "Creatinine"
    << <<"c", "r", "e", "a", "t">>,
       <<"C", "r", "e", "a", "t", "i", "n", "i", "n", "e">> >>,  \* "creat": "Creatinine"
    << <<"e", "g", "f", "r">>,
       <<"e", "G", "F", "R">> >>,  \* "egfr": "eGFR"
    << <<"s", "o", "d", "i", "u", "m">>,
       <<"S", "o", "d", "i", "u", "m">> >>,  \* "sodium": "Sodium"
    << <<"n", "a">>,
       <<"S", "o", "d", "i", "u", "m">> >>,  \* "na": "Sodium"
    << <<"p", "o", "t", "a", "s", "s", "i", "u", "m">>,
       <<"P", "o", "t", "a", "s", "s", "i", "u", "m">> >>,  \* "potassium": "Potassium"
    << <<"k">>,
       <<"P", "o", "t", "a", "s", "s", "i", "u", "m">> >>,  \* "k": "Potassium"
    << <<"c", "h", "l", "o", "r", "i", "d", "e">>,
       <<"C", "h", "l", "o", "r", "i", "d", "e">> >>,  \* "chloride": "Chloride"
    << <<"c", "l">>,
       <<"C", "h", "l", "o", "r", "i", "d", "e">> >>,  \* "cl": "Chloride"
    << <<"c", "o", "2">>,
       <<"C", "O", "2">> >>,  \* "co2": "CO2"
    << <<"c", "a", "r", "b", "o", "n", " ", "d", "i", "o", "x", "i", "d", "e">>,
       <<"C", "O", "2">> >>,  \* "carbon dioxide": "CO2"
    << <<"c", "a", "l", "c", "i", "u", "m">>,
       <<"C", "a", "l", "c", "i", "u", "m">> >>,  \* "calcium": "Calcium"
    << <<"c", "a">>,
       <<"C", "a", "l", "c", "i", "u", "m">> >>,  \* "ca": "Calcium"
    << <<"t", "o", "t", "a", "l", " ", "p", "r", "o", "t", "e", "i", "n">>,
       <<"T", "o", "t", "a", "l", " ", "P", "r", "o", "t", "e", "i", "n">> >>,  \* "total protein": "Total Protein"
    << <<"a", "l", "b", "u", "m", "i", "n">>,
       <<"A", "l", "b", "u", "m", "i", "n">> >>,  \* "albumin": "Albumin"
    << <<"a", "l", "b">>,
       <<"A", "l", "b", "u", "m", "i", "n">> >>,  \* "alb": "Albumin"
    << <<"g", "l", "o", "b", "u", "l", "i", "n">>,
       <<"G", "l", "o", "b", "u", "l", "i", "n">> >>,  \* "globulin": "Globulin"
    << <<"a", "/", "g", " ", "r", "a", "t", "i", "o">>,
       <<"A", "/", "G", " ", "R", "a", "t", "i", "o">> >>,  \* "a/g ratio": "A/G Ratio"
    << <<"b", "i", "l", "i", "r", "u", "b", "i", "n">>,
       <<"B", "i", "l", "i", "r", "u", "b", "i", "n", " ", "T", "o", "t", "a", "l">> >>,  \* "bilirubin": "Bilirubin Total"
    << <<"t", "o", "t", "a", "l", " ", "b", "i", "l", "i", "r", "u", "b", "i", "n">>,
       <<"B", "i", "l", "i", "r", "u", "b", "i", "n", " ", "T", "o", "t", "a", "l">> >>,  \* "total bilirubin": "Bilirubin Total"
    << <<"d", "i", "r", "e", "c", "t", " ", "b", "i", "l", "i", "r", "u", "b", "i", "n">>,
       <<"B", "i", "l", "i", "r", "u", "b", "i", "n", " ", "D", "i", "r", "e", "c", "t">> >>,  \* "direct bilirubin": "Bilirubin Direct"
    << <<"a", "l", "k", "a", "l", "i", "n", "e", " ", "p", "h", "o", "s", "p", "h", "a", "t", "a", "s", "e">>,
       <<"A", "l", "k", "a", "l", "i", "n", "e", " ", "P", "h", "o", "s", "p", "h", "a", "t", "a", "s", "e">> >>,  \* "alkaline phosphatase": "Alkaline Phosphatase"
    << <<"a", "l", "k", " ", "p", "h", "o", "s">>,
       <<"A", "l", "k", "a", "l", "i", "n", "e", " ", "P", "h", "o", "s", "p", "h", "a", "t", "a", "s", "e">> >>,  \* "alk phos": "Alkaline Phosphatase"
    << <<"a", "l", "p">>,
       <<"A", "l", "k", "a", "l", "i", "n", "e", " ", "P", "h", "o", "s", "p", "h", "a", "t", "a", "s", "e">> >>,  \* "alp": "Alkaline Phosphatase"
    << <<"a", "s", "t">>,
       <<"A", "S", "T">> >>,  \* "ast": "AST"
    << <<"s", "g", "o", "t">>,
       <<"A", "S", "T">> >>,  \* "sgot": "AST"
    << <<"a", "l", "t">>,
       <<"A", "L", "T">> >>,  \* "alt": "ALT"
    << <<"s", "g", "p", "t">>,
       <<"A", "L", "T">> >>,  \* "sgpt": "ALT"
    << <<"g", "g", "t">>,
       <<"G", "G", "T">> >>,  \* "ggt": "GGT"
    << <<"l", "d", "h">>,
       <<"L", "D", "H">> >>,  \* "ldh": "LDH"
    << <<"c", "h", "o", "l", "e", "s", "t", "e", "r", "o", "l">>,
       <<"T", "o", "t", "a", "l", " ", "C", "h", "o", "l", "e", "s", "t", "e", "r", "o", "l">> >>,  \* "cholesterol": "Total Cholesterol"
    << <<"t", "o", "t", "a", "l", " ", "c", "h", "o", "l", "e", "s", "t", "e", "r", "o", "l">>,
       <<"T", "o", "t", "a", "l", " ", "C", "h", "o", "l", "e", "s", "t", "e", "r", "o", "l">> >>,  \* "total cholesterol": "Total Cholesterol"
    << <<"h", "d", "l">>,
       <<"H", "D", "L", " ", "C", "h", "o", "l", "e", "s", "t", "e", "r", "o", "l">> >>,  \* "hdl": "HDL Cholesterol"
    << <<"h", "d", "l", " ", "c", "h", "o", "l", "e", "s", "t", "e", "r", "o", "l">>,
       <<"H", "D", "L", " ", "C", "h", "o", "l", "e", "s", "t", "e", "r", "o", "l">> >>,  \* "hdl cholesterol": "HDL Cholesterol"
    << <<"l", "d", "l">>,
       <<"L", "D", "L", " ", "C", "h", "o", "l", "e", "s", "t", "e", "r", "o", "l">> >>,  \* "ldl": "LDL Cholesterol"
    << <<"l", "d", "l", " ", "c", "h", "o", "l", "e", "s", "t", "e", "r", "o", "l">>,
       <<"L", "D", "L", " ", "C", "h", "o", "l", "e", "s", "t", "e", "r", "o", "l">> >>,  \* "ldl cholesterol": "LDL Cholesterol"
    << <<"l", "d", "l", "-", "c">>,
       <<"L", "D", "L", " ", "C", "h", "o", "l", "e", "s", "t", "e", "r", "o", "l">> >>,  \* "ldl-c": "LDL Cholesterol"
    << <<"t", "r", "i", "g", "l", "y", "c", "e", "r", "i", "d", "e", "s">>,
       <<"T", "r", "i", "g", "l", "y", "c", "e", "r", "i", "d", "e", "s">> >>,  \* "triglycerides": "Triglycerides"
    << <<"t", "r", "i", "g">>,
       <<"T", "r", "i", "g", "l", "y", "c", "e", "r", "i", "d", "e", "s">> >>,  \* "trig": "Triglycerides"
    << <<"v", "l", "d", "l">>,
       <<"V", "L", "D", "L">> >>,  \* "vldl": "VLDL"
    << <<"a", "p", "o", "b">>,
       <<"A", "p", "o", "B">> >>,  \* "apob": "ApoB"
    << <<"a", "p", "o", "l", "i", "p", "o", "p", "r", "o", "t", "e", "i", "n", " ", "b">>,
       <<"A", "p", "o", "B">> >>,  \* "apolipoprotein b": "ApoB"
    << <<"l", "p", "(", "a", ")">>,
       <<"L", "p", "(", "a", ")">> >>,  \* "lp(a)": "Lp(a)"
    << <<"l", "i", "p", "o", "p", "r", "o", "t", "e", "i", "n", "(", "a", ")">>,
       <<"L", "p", "(", "a", ")">> >>,  \* "lipoprotein(a)": "Lp(a)"
    << <<"l", "i", "p", "o", "p", "r", "o", "t", "e", "i", "n", " ", "a">>,
       <<"L", "p", "(", "a", ")">> >>,  \* "lipoprotein a": "Lp(a)"
    << <<"t", "s", "h">>,
       <<"T", "S", "H">> >>,  \* "tsh": "TSH"
    << <<"t", "3">>,
       <<"T", "3">> >>,  \* "t3": "T3"
    << <<"f", "r", "e", "e", " ", "t", "3">>,
       <<"F", "r", "e", "e", " ", "T", "3">> >>,  \* "free t3": "Free T3"
    << <<"t", "4">>,
       <<"T", "4">> >>,  \* "t4": "T4"
    << <<"f", "r", "e", "e", " ", "t", "4">>,
       <<"F", "r", "e", "e", " ", "T", "4">> >>,  \* "free t4": "Free T4"
    << <<"f", "t", "4">>,
       <<"F", "r", "e", "e", " ", "T", "4">> >>,  \* "ft4": "Free T4"
    << <<"f", "t", "3">>,
       <<"F", "r", "e", "e", " ", "T", "3">> >>,  \* "ft3": "Free T3"
    << <<"h", "e", "m", "o", "g", "l", "o", "b", "i", "n", " ", "a", "1", "c">>,
       <<"H", "b", "A", "1", "c">> >>,  \* "hemoglobin a1c": "HbA1c"
    << <<"h", "b", "a", "1", "c">>,
       <<"H", "b", "A", "1", "c">> >>,  \* "hba1c": "HbA1c"
    << <<"a", "1", "c">>,
       <<"H", "b", "A", "1", "c">> >>,  \* "a1c": "HbA1c"
    << <<"g", "l", "y", "c", "a", "t", "e", "d", " ", "h", "e", "m", "o", "g", "l", "o", "b", "i", "n">>,
       <<"H", "b", "A", "1", "c">> >>,  \* "glycated hemoglobin": "HbA1c"
    << <<"i", "n", "s", "u", "l", "i", "n">>,
       <<"I", "n", "s", "u", "l", "i", "n">> >>,  \* "insulin": "Insulin"
    << <<"f", "a", "s", "t", "i", "n", "g", " ", "i", "n", "s", "u", "l", "i", "n">>,
       <<"I", "n", "s", "u", "l", "i", "n", " ", "(", "F", "a", "s", "t", "i", "n", "g", ")">> >>,  \* "fasting insulin": "Insulin (Fasting)"
    << <<"h", "o", "m", "a", "-", "i", "r">>,
       <<"H", "O", "M", "A", "-", "I", "R">> >>,  \* "homa-ir": "HOMA-IR"
    << <<"c", "-", "r", "e", "a", "c", "t", "i", "v", "e", " ", "p", "r", "o", "t", "e", "i", "n">>,
       <<"C", "R", "P">> >>,  \* "c-reactive protein": "CRP"
    << <<"c", "r", "p">>,
       <<"C", "R", "P">> >>,  \* "crp": "CRP"
    << <<"h", "s", "-", "c", "r", "p">>,
       <<"h", "s", "-", "C", "R", "P">> >>,  \* "hs-crp": "hs-CRP"
    << <<"h", "i", "g", "h", " ", "s", "e", "n", "s", "i", "t", "i", "v", "i", "t", "y", " ", "c", "r", "p">>,
       <<"h", "s", "-", "C", "R", "P">> >>,  \* "high sensitivity crp": "hs-CRP"
    << <<"h", "o", "m", "o", "c", "y", "s", "t", "e", "i", "n", "e">>,
       <<"H", "o", "m", "o", "c", "y", "s", "t", "e", "i", "n", "e">> >>,  \* "homocysteine": "Homocysteine"
    << <<"f", "e", "r", "r", "i", "t", "i", "n">>,
       <<"F", "e", "r", "r", "i", "t", "i", "n">> >>,  \* "ferritin": "Ferritin"
    << <<"i", "r", "o", "n">>,
       <<"I", "r", "o", "n">> >>,  \* "iron": "Iron"
    << <<"t", "i", "b", "c">>,
       <<"T", "I", "B", "C">> >>,  \* "tibc": "TIBC"
    << <<"t", "r", "a", "n", "s", "f", "e", "r", "r", "i", "n", " ", "s", "a", "t", "u", "r", "a", "t", "i", "o", "n">>,
       <<"T", "r", "a", "n", "s", "f", "e", "r", "r", "i", "n", " ", "S", "a", "t", "u", "r", "a", "t", "i", "o", "n">> >>,  \* "transferrin saturation": "Transferrin Saturation"
    << <<"v", "i", "t", "a", "m", "i", "n", " ", "d">>,
       <<"V", "i", "t", "a", "m", "i", "n", " ", "D">> >>,  \* "vitamin d": "Vitamin D"
    << <<"2", "5", "-", "h", "y", "d", "r", "o", "x", "y", " ", "v", "i", "t", "a", "m", "i", "n", " ", "d">>,
       <<"V", "i", "t", "a", "m", "i", "n", " ", "D">> >>,  \* "25-hydroxy vitamin d": "Vitamin D"
    << <<"v", "i", "t", "a", "m", "i", "n", " ", "d", ",", " ", "2", "5", "-", "o", "h">>,
       <<"V", "i", "t", "a", "m", "i", "n", " ", "D">> >>,  \* "vitamin d, 25-oh": "Vitamin D"
    << <<"v", "i", "t", "a", "m", "i", "n", " ", "b", "1", "2">>,
       <<"V", "i", "t", "a", "m", "i", "n", " ", "B", "1", "2">> >>,  \* "vitamin b12": "Vitamin B12"
    << <<"b", "1", "2">>,
       <<"V", "i", "t", "a", "m", "i", "n", " ", "B", "1", "2">> >>,  \* "b12": "Vitamin B12"
    << <<"f", "o", "l", "a", "t", "e">>,
       <<"F", "o", "l", "a", "t", "e">> >>,  \* "folate": "Folate"
    << <<"f", "o", "l", "i", "c", " ", "a", "c", "i", "d">>,
       <<"F", "o", "l", "a", "t", "e">> >>,  \* "folic acid": "Folate"
    << <<"m", "a", "g", "n", "e", "s", "i", "u", "m">>,
       <<"M", "a", "g", "n", "e", "s", "i", "u", "m">> >>,  \* "magnesium": "Magnesium"
    << <<"m", "g">>,
       <<"M", "a", "g", "n", "e", "s", "i", "u", "m">> >>,  \* "mg": "Magnesium"
    << <<"z", "i", "n", "c">>,
       <<"Z", "i", "n", "c">> >>,  \* "zinc": "Zinc"
    << <<"t", "e", "s", "t", "o", "s", "t", "e", "r", "o", "n", "e">>,
       <<"T", "e", "s", "t", "o", "s", "t", "e", "r", "o", "n", "e">> >>,  \* "testosterone": "Testosterone"
    << <<"t", "o", "t", "a", "l", " ", "t", "e", "s", "t", "o", "s", "t", "e", "r", "o", "n", "e">>,
       <<"T", "e", "s", "t", "o", "s", "t", "e", "r", "o", "n", "e", " ", "T", "o", "t", "a", "l">> >>,  \* "total testosterone": "Testosterone Total"
    << <<"f", "r", "e", "e", " ", "t", "e", "s", "t", "o", "s", "t", "e", "r", "o", "n", "e">>,
       <<"T", "e", "s", "t", "o", "s", "t", "e", "r", "o", "n", "e", " ", "F", "r", "e", "e">> >>,  \* "free testosterone": "Testosterone Free"
    << <<"e", "s", "t", "r", "a", "d", "i", "o", "l">>,
       <<"E", "s", "t", "r", "a", "d", "i", "o", "l">> >>,  \* "estradiol": "Estradiol"
    << <<"e", "2">>,
       <<"E", "s", "t", "r", "a", "d", "i", "o", "l">> >>,  \* "e2": "Estradiol"
    << <<"d", "h", "e", "a", "-", "s">>,
       <<"D", "H", "E", "A", "-", "S">> >>,  \* "dhea-s": "DHEA-S"
    << <<"d", "h", "e", "a", " ", "s", "u", "l", "f", "a", "t", "e">>,
       <<"D", "H", "E", "A", "-", "S">> >>,  \* "dhea sulfate": "DHEA-S"
    << <<"c", "o", "r", "t", "i", "s", "o", "l">>,
       <<"C", "o", "r", "t", "i", "s", "o", "l">> >>,  \* "cortisol": "Cortisol"
    << <<"p", "s", "a">>,
       <<"P", "S", "A">> >>,  \* "psa": "PSA"
    << <<"u", "r", "i", "c", " ", "a", "c", "i", "d">>,
       <<"U", "r", "i", "c", " ", "A", "c", "i", "d">> >>,  \* "uric acid": "Uric Acid"
    << <<"f", "i", "b", "r", "i", "n", "o", "g", "e", "n">>,
       <<"F", "i", "b", "r", "i", "n", "o", "g", "e", "n">> >>,  \* "fibrinogen": "Fibrinogen"
    << <<"d", "-", "d", "i", "m", "e", "r">>,
       <<"D", "-", "D", "i", "m", "e", "r">> >>  \* "d-dimer": "D-Dimer"
  >>

AliasKeys == {MARKER_ALIASES[pos][1] : pos \in 1..Len(MARKER_ALIASES)}

\* MARKER_ALIASES.get(k, default)
AliasGet(k, default) ==
  IF k \in AliasKeys
  THEN MARKER_ALIASES[CHOOSE pos \in 1..Len(MARKER_ALIASES) : MARKER_ALIASES[pos][1] = k][2]
  ELSE default

\* A lookup that forgets name.lower()
NormalizeNoLower(name) == AliasGet(Strip(name), Strip(name))

normalize_marker_name(name) == AliasGet(Strip(Lower(name)), Strip(name))

\* ------------------------------------------------------------------------
\* JSON values and the BloodworkMarker schema
\* ------------------------------------------------------------------------

Missing == [t |-> "missing"]

JNum(v) == [t |-> "num", v |-> v]

JStr(s) == [t |-> "str", s |-> s]

\* dict.get(key, default) on a field that holds Missing when the key is absent
Get(field, default) == IF field.t = "missing" THEN default ELSE field

MaxNameLen == 200

MaxUnitLen == 50

\* pydantic's parse of a str as a float: the trimmed str as Rust's
\* str::parse::<f64> reads it, which knows ASCII digits only; failing that,
\* the str without its underscores, unless it starts or ends with one, has
\* two in a row, or has none
str_as_float(s) ==
  IF FloatOfSigned(FloatTrim(s), TRUE).ok
  THEN FloatOfSigned(FloatTrim(s), TRUE)
  ELSE IF /\ \E k \in 1..Len(s) : s[k] = "_"
          /\ s[1] # "_" /\ s[Len(s)] # "_"
          /\ ~\E k \in 1..(Len(s) - 1) : s[k] = "_" /\ s[k + 1] = "_"
  THEN FloatOfSigned(SelectSeq(s, LAMBDA c : c # "_"), TRUE)
  ELSE [ok |-> FALSE]

\* pydantic's conversion of an input to float in lax mode: a number is
\* taken as it is, a bool is 1.0 or 0.0, a str is parsed; an int too large
\* for a float, None, a list and a dict are rejected
FloatField(x) ==
  IF x.t = "num" THEN [ok |-> TRUE, v |-> x.v]
  ELSE IF x.t = "bool" THEN [ok |-> TRUE, v |-> IF x.b THEN 100 ELSE 0]
  ELSE IF x.t = "str" THEN str_as_float(x.s)
  ELSE [ok |-> FALSE]

OptOf(f) == IF f.ok THEN [ok |-> TRUE, v |-> JNum(f.v)] ELSE [ok |-> FALSE]

\* float | None = None
OptFloatField(x) ==
  IF x.t \in {"null", "missing"} THEN [ok |-> TRUE, v |-> None]
  ELSE OptOf(FloatField(x))

\* str | None = None
OptStrField(x) ==
  IF x.t \in {"null", "missing"} THEN [ok |-> TRUE, v |-> None]
  ELSE IF x.t = "str" THEN [ok |-> TRUE, v |-> x]
  ELSE [ok |-> FALSE]

\* The model validated from the converted fields v, lo, hi, fl.  The length
\* constraints are checked on the input and strip_name runs afterwards.
ValidatedMarker(name, v, unit, lo, hi, fl) ==
  IF /\ name.t = "str" /\ Len(name.s) >= 1 /\ Len(name.s) <= MaxNameLen
     /\ v.ok
     /\ unit.t = "str" /\ Len(unit.s) >= 1 /\ Len(unit.s) <= MaxUnitLen
     /\ lo.ok /\ hi.ok /\ fl.ok
  THEN [ok |-> TRUE,
        m  |-> [name |-> Strip(name.s), value |-> v.v, unit |-> unit.s,
                reference_low |-> lo.v, reference_high |-> hi.v, flag |-> fl.v]]
  ELSE [ok |-> FALSE]

\* BloodworkMarker(name=, value=, unit=, reference_low=, reference_high=,
\* flag=): [ok |-> TRUE, m |-> the marker], or [ok |-> FALSE] for a
\* ValidationError
BloodworkMarker(name, value, unit, reference_low, reference_high, flag) ==
  ValidatedMarker(name, FloatField(value), unit, OptFloatField(reference_low),
                  OptFloatField(reference_high), OptStrField(flag))

\* ------------------------------------------------------------------------
\* Replies of the chat-completion endpoint
\* ------------------------------------------------------------------------
\* A reply is [kind, content]: kind "timeout" (httpx.TimeoutException),
\* "http_error" (raise_for_status), "bad_shape" (no choices[0].message.content)
\* or "ok".  The content of an "ok" reply is a sequence of chunks: "prose"
\* (text without braces), "open" (a stray '{'), "close" (a stray '}') and
\* "object" (a balanced {...} text, with json its json.loads value, or
\* [t |-> "invalid"] when it is not JSON).

Invalid == [t |-> "invalid"]

\* json.loads of the text from the chunk first, which holds the first '{', to
\* the chunk last, which holds the last '}'
JsonOfSpan(content, first, last) ==
  IF last < first THEN [t |-> "no_match"]
  ELSE IF last = first /\ content[first].c = "object" THEN content[first].json
  ELSE Invalid

\* re.search(r'\{[\s\S]*\}', content) followed by json.loads(match.group()):
\* the match runs from the first '{' to the last '}' of the content.
\* "no_match", "invalid" (json.JSONDecodeError) or the parsed object.
ExtractBetween(content, opens, closes) ==
  IF opens = {} \/ closes = {} THEN [t |-> "no_match"]
  ELSE JsonOfSpan(content, CHOOSE pos \in opens : \A j \in opens : pos <= j,
                           CHOOSE pos \in closes : \A j \in closes : j <= pos)

ExtractJson(content) ==
  ExtractBetween(content,
                 {pos \in 1..Len(content) : content[pos].c \in {"open", "object"}},
                 {pos \in 1..Len(content) : content[pos].c \in {"close", "object"}})

\* ------------------------------------------------------------------------
\* parse_markers_with_llm
\* ------------------------------------------------------------------------

\* value = m.get("value") and the coercion of a str value:
\* re.sub, then float(value) if value else None.  [ok |-> FALSE] is the
\* ValueError of float.
CoerceValue(raw) ==
  IF raw.t # "str" THEN [ok |-> TRUE, v |-> raw]
  ELSE IF KeepNumericChars(raw.s) = <<>> THEN [ok |-> TRUE, v |-> None]
  ELSE OptOf(PyFloat(KeepNumericChars(raw.s)))

JBool(b) == [t |-> "bool", b |-> b]

\* A JSON integer beyond the range of float, such as a literal of 400 digits
BigInt == [t |-> "bigint"]

\* float(x) for a JSON value x that is not None: bool is a number in Python
\* (float(False) is 0.0), a str is parsed (ValueError), an int beyond the
\* range of float gives OverflowError, a list or a dict TypeError
FloatOfJson(x) ==
  IF x.t = "num" THEN [r |-> "ok", v |-> x.v]
  ELSE IF x.t = "bool" THEN [r |-> "ok", v |-> IF x.b THEN 100 ELSE 0]
  ELSE IF x.t = "str"
       THEN IF PyFloat(x.s).ok THEN [r |-> "ok", v |-> PyFloat(x.s).v]
            ELSE [r |-> "ValueError"]
  ELSE IF x.t = "bigint" THEN [r |-> "OverflowError"]
  ELSE [r |-> "TypeError"]

\* float(m["reference_low"]) if m.get("reference_low") is not None else None
RefFloat(x) ==
  IF x.t \in {"null", "missing"} THEN [r |-> "ok", v |-> None]
  ELSE IF FloatOfJson(x).r = "ok" THEN [r |-> "ok", v |-> JNum(FloatOfJson(x).v)]
  ELSE FloatOfJson(x)

LLMKeep(made) == IF made.ok THEN [r |-> "keep", m |-> made.m] ELSE [r |-> "skip"]

\* except (ValueError, TypeError, KeyError) of the loop body: the entry is
\* skipped; any other exception leaves the loop
LLMRaised(exc) ==
  IF exc \in {"ValueError", "TypeError", "KeyError"} THEN [r |-> "skip"]
  ELSE [r |-> "abort"]

\* BloodworkMarker(...) with the arguments float(value),
\* float(m["reference_low"]) and float(m["reference_high"]), evaluated in
\* this order: the first one that raises decides
LLMConverted(m, name, v, lo, hi) ==
  IF v.r # "ok" THEN LLMRaised(v.r)
  ELSE IF lo.r # "ok" THEN LLMRaised(lo.r)
  ELSE IF hi.r # "ok" THEN LLMRaised(hi.r)
  ELSE LLMKeep(BloodworkMarker(JStr(name), JNum(v.v), Get(m.unit, JStr(<<>>)),
                               lo.v, hi.v, Get(m.flag, None)))

\* The entry m with its normalized name and its coerced value
LLMEntryOf(m, name, value) ==
  IF name = <<>> THEN [r |-> "skip"]
  ELSE IF ~value.ok THEN [r |-> "skip"]
  ELSE IF value.v.t = "null" THEN [r |-> "skip"]
  ELSE LLMConverted(m, name, FloatOfJson(value.v), RefFloat(m.reference_low),
                    RefFloat(m.reference_high))

\* One entry m of parsed["markers"] (the body of the for loop):
\* "abort" when the entry raises an exception the loop does not catch
\* (AttributeError of m.get or of name.lower()), "skip" when the entry is
\* dropped (continue), "keep" with the marker otherwise.
LLMEntry(m) ==
  IF m.t # "obj" THEN [r |-> "abort"]
  ELSE IF Get(m.name, JStr(<<>>)).t # "str" THEN [r |-> "abort"]
  ELSE LLMEntryOf(m, normalize_marker_name(Get(m.name, JStr(<<>>)).s),
                  CoerceValue(Get(m.value, None)))

\* The loop's result after the entry result e and the result of the rest
LLMCons(e, rest) ==
  IF e.r = "abort" \/ rest.abort THEN [abort |-> TRUE, markers |-> <<>>]
  ELSE IF e.r = "keep" THEN [abort |-> FALSE, markers |-> <<e.m>> \o rest.markers]
  ELSE rest

RECURSIVE LLMEntries(_)
\* The for loop over the entries: [abort, markers]
LLMEntries(items) ==
  IF items = <<>> THEN [abort |-> FALSE, markers |-> <<>>]
  ELSE LLMCons(LLMEntry(Head(items)), LLMEntries(Tail(items)))

\* What the code returns on every handled failure: return [], 0.0
LLMFailed(outcome) == [markers |-> <<>>, confidence |-> JNum(0), outcome |-> outcome]

\* The return after the loop: confidence = parsed.get("confidence",
\* 0.8 if markers else 0.0)
LLMParsed(parsed, loop) ==
  IF loop.abort THEN LLMFailed("error")
  ELSE [markers    |-> loop.markers,
        confidence |-> Get(parsed.confidence,
                           IF loop.markers # <<>> THEN JNum(800) ELSE JNum(0)),
        outcome    |-> "parsed"]

\* for m in parsed.get("markers", [])
MarkersOf(parsed) == Get(parsed.markers, [t |-> "list", items |-> <<>>])

\* The keys of a JSON object
KeysOf(obj) == {k \in DOMAIN obj \ {"t"} : obj[k].t # "missing"}

\* What "for m in x" iterates: the items of a list; the characters of a str
\* and the keys of a dict, which are str (m.get raises AttributeError, and a
\* loop over an empty str or dict has no iteration); TypeError for a value
\* that is not iterable.
IterOf(x) ==
  IF x.t = "list" THEN [ok |-> TRUE, items |-> x.items]
  ELSE IF x.t = "str" THEN [ok |-> TRUE, items |-> [k \in 1..Len(x.s) |-> JStr(<<x.s[k]>>)]]
  ELSE IF x.t = "obj"
       THEN [ok |-> TRUE, items |-> [k \in 1..Cardinality(KeysOf(x)) |-> JStr(<<>>)]]
  ELSE [ok |-> FALSE]

LLMOfJson(parsed) ==
  IF parsed.t = "no_match" THEN LLMFailed("no_json")
  ELSE IF parsed.t = "invalid" THEN LLMFailed("invalid_json")
  ELSE IF ~IterOf(MarkersOf(parsed)).ok THEN LLMFailed("error")
  ELSE LLMParsed(parsed, LLMEntries(IterOf(MarkersOf(parsed)).items))

\* parse_markers_with_llm(raw_text) for a given reply of the endpoint:
\* [markers, confidence, outcome].  The confidence is the JSON value of the
\* reply's "confidence" key when the key is present.
parse_markers_with_llm(reply) ==
  IF reply.kind = "timeout" THEN LLMFailed("timeout")
  ELSE IF reply.kind # "ok" THEN LLMFailed("error")
  ELSE LLMOfJson(ExtractJson(reply.content))

\* ------------------------------------------------------------------------
\* Recognized text
\* ------------------------------------------------------------------------
\* A text is the sequence of its lines; the Python str is "\n".join(lines)
\* and the empty str is <<>>.  The lines of the model's texts carry no
\* leading or trailing whitespace of their own, except the lines that are
\* nothing else: " ", and the form feed that ends a page of the engine.

\* The characters of the lines of the model's texts
LineChars(line) ==
  CASE line = "Glucose 95 mg/dL (70-100)" ->
       <<"G", "l", "u", "c", "o", "s", "e", " ", "9", "5", " ", "m", "g", "/", "d", "L", " ", "(", "7", "0", "-", "1", "0", "0", ")">>
    [] line = "glucose 98 mg/dL" ->
       <<"g", "l", "u", "c", "o", "s", "e", " ", "9", "8", " ", "m", "g", "/", "d", "L">>
    [] line = "Glucose 95 mg/dL" ->
       <<"G", "l", "u", "c", "o", "s", "e", " ", "9", "5", " ", "m", "g", "/", "d", "L">>
    [] line = "HbA1c 5.4 %" ->
       <<"H", "b", "A", "1", "c", " ", "5", ".", "4", " ", "%">>
    [] line = "A1c 5.4%" ->
       <<"A", "1", "c", " ", "5", ".", "4", "%">>
    [] line = "HDL 55 mg/dL" ->
       <<"H", "D", "L", " ", "5", "5", " ", "m", "g", "/", "d", "L">>
    [] line = "HDL 55" ->
       <<"H", "D", "L", " ", "5", "5">>
    [] line = "HDL: 55" ->
       <<"H", "D", "L", ":", " ", "5", "5">>
    [] line = "LDL: 130" ->
       <<"L", "D", "L", ":", " ", "1", "3", "0">>
    [] line = "Na: 140" ->
       <<"N", "a", ":", " ", "1", "4", "0">>
    [] line = "HDL: 55 mg/dL" ->
       <<"H", "D", "L", ":", " ", "5", "5", " ", "m", "g", "/", "d", "L">>
    [] line = "Glucose: 95 mg/dL" ->
       <<"G", "l", "u", "c", "o", "s", "e", ":", " ", "9", "5", " ", "m", "g", "/", "d", "L">>
    [] line = "Patient report generated by laboratory information system²" ->
       <<"P", "a", "t", "i", "e", "n", "t", " ", "r", "e", "p", "o", "r", "t", " ", "g", "e", "n", "e", "r", "a", "t", "e", "d", " ", "b", "y", " ", "l", "a", "b", "o", "r", "a", "t", "o", "r", "y", " ", "i", "n", "f", "o", "r", "m", "a", "t", "i", "o", "n", " ", "s", "y", "s", "t", "e", "m", "²">>
    [] line = "" ->
       <<>>
    [] line = " " ->
       <<" ">>
    [] line = "\f" ->
       <<"\f">>

\* not s.strip(): every character of s is whitespace
AllSpace(s) == \A k \in 1..Len(s) : IsSpace(s[k])

IsBlank(line) == AllSpace(LineChars(line))

\* str.strip() of one line
StripLine(line) == IF IsBlank(line) THEN "" ELSE line

RECURSIVE StripLeft(_)
StripLeft(text) ==
  IF text = <<>> THEN <<>>
  ELSE IF IsBlank(Head(text)) THEN StripLeft(Tail(text)) ELSE text

RECURSIVE StripRight(_)
StripRight(text) ==
  IF text = <<>> THEN <<>>
  ELSE IF IsBlank(text[Len(text)]) THEN StripRight(SubSeq(text, 1, Len(text) - 1))
  ELSE text

\* text.strip()
StripText(text) == StripRight(StripLeft(text))

RECURSIVE SumLen(_)
SumLen(text) == IF text = <<>> THEN 0 ELSE Len(Head(text)) + SumLen(Tail(text))

\* len(text): the characters of the lines and the newlines between them
TextLen(text) == IF text = <<>> THEN 0 ELSE SumLen(text) + (Len(text) - 1)

\* ------------------------------------------------------------------------
\* extract_markers_regex
\* ------------------------------------------------------------------------

known_markers ==
  { <<"g", "l", "u", "c", "o", "s", "e">>,
    <<"h", "d", "l">>,
    <<"l", "d", "l">>,
    <<"c", "h", "o", "l", "e", "s", "t", "e", "r", "o", "l">>,
    <<"t", "r", "i", "g", "l", "y", "c", "e", "r", "i", "d", "e", "s">>,
    <<"h", "e", "m", "o", "g", "l", "o", "b", "i", "n">>,
    <<"h", "e", "m", "a", "t", "o", "c", "r", "i", "t">>,
    <<"w", "b", "c">>,
    <<"r", "b", "c">>,
    <<"p", "l", "a", "t", "e", "l", "e", "t", "s">>,
    <<"c", "r", "e", "a", "t", "i", "n", "i", "n", "e">>,
    <<"b", "u", "n">>,
    <<"s", "o", "d", "i", "u", "m">>,
    <<"p", "o", "t", "a", "s", "s", "i", "u", "m">>,
    <<"c", "h", "l", "o", "r", "i", "d", "e">>,
    <<"c", "a", "l", "c", "i", "u", "m">>,
    <<"a", "l", "b", "u", "m", "i", "n">>,
    <<"p", "r", "o", "t", "e", "i", "n">>,
    <<"b", "i", "l", "i", "r", "u", "b", "i", "n">>,
    <<"a", "s", "t">>,
    <<"a", "l", "t">>,
    <<"a", "l", "p">>,
    <<"g", "g", "t">>,
    <<"t", "s", "h">>,
    <<"h", "b", "a", "1", "c">>,
    <<"a", "1", "c">>,
    <<"i", "n", "s", "u", "l", "i", "n">>,
    <<"f", "e", "r", "r", "i", "t", "i", "n">>,
    <<"i", "r", "o", "n">>,
    <<"v", "i", "t", "a", "m", "i", "n", " ", "d">>,
    <<"b", "1", "2">>,
    <<"t", "e", "s", "t", "o", "s", "t", "e", "r", "o", "n", "e">>,
    <<"e", "s", "t", "r", "a", "d", "i", "o", "l">>,
    <<"c", "o", "r", "t", "i", "s", "o", "l">>,
    <<"c", "r", "p">>,
    <<"h", "o", "m", "o", "c", "y", "s", "t", "e", "i", "n", "e">>,
    <<"a", "p", "o", "b">>,
    <<"l", "p", "(", "a", ")">>,
    <<"e", "g", "f", "r">>,
    <<"m", "c", "v">>,
    <<"m", "c", "h">>,
    <<"m", "c", "h", "c">>,
    <<"r", "d", "w">>,
    <<"m", "p", "v">>,
    <<"u", "r", "i", "c", " ", "a", "c", "i", "d">>,
    <<"m", "a", "g", "n", "e", "s", "i", "u", "m">>,
    <<"z", "i", "n", "c">>,
    <<"f", "o", "l", "a", "t", "e">>,
    <<"d", "h", "e", "a">>,
    <<"v", "l", "d", "l">>,
    <<"f", "i", "b", "r", "i", "n", "o", "g", "e", "n">> }


NoMatch == [matched |-> FALSE]

\* re.search(patterns[0], line, re.IGNORECASE) and re.search(patterns[1], ...)
\* on the lines of the model's texts, as Python's re computes them: the
\* groups of the match.  Pattern 2 has no ref_low and no ref_high group.
Pattern1Search(line) ==
  CASE line = "Glucose 95 mg/dL (70-100)" ->
       [matched |-> TRUE, name |-> <<"G", "l", "u", "c", "o", "s", "e">>, value |-> <<"9", "5">>, unit |-> JStr(<<"m", "g", "/", "d", "L">>), ref_low |-> JStr(<<"7", "0">>), ref_high |-> JStr(<<"1", "0", "0">>)]
    [] line = "glucose 98 mg/dL" ->
       [matched |-> TRUE, name |-> <<"g", "l", "u", "c", "o", "s", "e">>, value |-> <<"9", "8">>, unit |-> JStr(<<"m", "g", "/", "d", "L">>), ref_low |-> None, ref_high |-> None]
    [] line = "Glucose 95 mg/dL" ->
       [matched |-> TRUE, name |-> <<"G", "l", "u", "c", "o", "s", "e">>, value |-> <<"9", "5">>, unit |-> JStr(<<"m", "g", "/", "d", "L">>), ref_low |-> None, ref_high |-> None]
    [] line = "HbA1c 5.4 %" ->
       [matched |-> TRUE, name |-> <<"H", "b", "A", "1", "c">>, value |-> <<"5", ".", "4">>, unit |-> JStr(<<"%">>), ref_low |-> None, ref_high |-> None]
    [] line = "A1c 5.4%" ->
       [matched |-> TRUE, name |-> <<"A", "1", "c">>, value |-> <<"5", ".", "4">>, unit |-> JStr(<<"%">>), ref_low |-> None, ref_high |-> None]
    [] line = "HDL 55 mg/dL" ->
       [matched |-> TRUE, name |-> <<"H", "D", "L">>, value |-> <<"5", "5">>, unit |-> JStr(<<"m", "g", "/", "d", "L">>), ref_low |-> None, ref_high |-> None]
    [] line = "HDL 55" ->
       [matched |-> TRUE, name |-> <<"H", "D", "L">>, value |-> <<"5", "5">>, unit |-> None, ref_low |-> None, ref_high |-> None]
    [] OTHER -> NoMatch

Pattern2Search(line) ==
  CASE line = "HDL: 55" ->
       [matched |-> TRUE, name |-> <<"H", "D", "L">>, value |-> <<"5", "5">>, unit |-> None]
    [] line = "LDL: 130" ->
       [matched |-> TRUE, name |-> <<"L", "D", "L">>, value |-> <<"1", "3", "0">>, unit |-> None]
    [] line = "Na: 140" ->
       [matched |-> TRUE, name |-> <<"N", "a">>, value |-> <<"1", "4", "0">>, unit |-> None]
    [] line = "HDL: 55 mg/dL" ->
       [matched |-> TRUE, name |-> <<"H", "D", "L">>, value |-> <<"5", "5">>, unit |-> JStr(<<"m", "g", "/", "d", "L">>)]
    [] line = "Glucose: 95 mg/dL" ->
       [matched |-> TRUE, name |-> <<"G", "l", "u", "c", "o", "s", "e">>, value |-> <<"9", "5">>, unit |-> JStr(<<"m", "g", "/", "d", "L">>)]
    [] OTHER -> NoMatch

\* sum(1 for c in s if c.isdigit())
DigitsIn(s) == Cardinality({k \in 1..Len(s) : IsDigit(s[k])})

DigitCount(line) == DigitsIn(LineChars(line))

\* sum(1 for c in text if c.isdigit())
RECURSIVE TextDigits(_)
TextDigits(text) ==
  IF text = <<>> THEN 0 ELSE DigitCount(Head(text)) + TextDigits(Tail(text))

\* known in name_lower, for str operands
Contains(s, sub) ==
  \E pos \in 1..(Len(s) - Len(sub) + 1) : SubSeq(s, pos, pos + Len(sub) - 1) = sub

\* float(match.group('ref_low')) if match.group('ref_low') else None
RefOf(group) == IF group.t = "null" THEN [ok |-> TRUE, v |-> None]
                ELSE OptOf(PyFloat(group.s))

RegexAppend(made) ==
  IF made.ok THEN [r |-> "append", m |-> made.m] ELSE [r |-> "continue"]

\* The try block for a pattern-1 match, with the converted groups.
\* unit = match.group('unit') or ''
RegexTry(name, value, unit, ref_low, ref_high) ==
  IF ~value.ok \/ ~ref_low.ok \/ ~ref_high.ok THEN [r |-> "continue"]
  ELSE RegexAppend(BloodworkMarker(JStr(normalize_marker_name(name)), JNum(value.v),
                                   IF unit.t = "null" THEN JStr(<<>>) ELSE unit,
                                   ref_low.v, ref_high.v, None))

\* The body of "if match:" for the match of pattern number p on one line:
\* "continue" (the next pattern is tried), "raise" (an exception that
\* extract_markers_regex does not catch) or "append" with the marker.
\* match.group('ref_low') raises IndexError for pattern 2, which has no
\* such group; only ValueError and AttributeError are caught.
RegexMatchBody(p, match) ==
  IF /\ ~\E known \in known_markers : Contains(Lower(Strip(match.name)), known)
     /\ Len(Strip(match.name)) < 3
  THEN [r |-> "continue"]
  ELSE IF ~PyFloat(match.value).ok THEN [r |-> "continue"]
  ELSE IF p = 2 THEN [r |-> "raise", exc |-> "IndexError"]
  ELSE RegexTry(Strip(match.name), PyFloat(match.value), match.unit,
                RefOf(match.ref_low), RefOf(match.ref_high))

PatternSearch(p, line) == IF p = 1 THEN Pattern1Search(line) ELSE Pattern2Search(line)

\* The result b of the match body of pattern p, or the next patterns' result
RegexFirst(b, next) == IF b.r = "continue" THEN next ELSE b

\* "for pattern in patterns" on one stripped line: "none" (no marker),
\* "raise", or "append" with the marker (and break)
RegexLine(line) ==
  RegexFirst(IF Pattern1Search(line).matched
             THEN RegexMatchBody(1, Pattern1Search(line)) ELSE [r |-> "continue"],
             RegexFirst(IF Pattern2Search(line).matched
                        THEN RegexMatchBody(2, Pattern2Search(line))
                        ELSE [r |-> "continue"],
                        [r |-> "none"]))

\* The loop's result after the line result b and the result of the rest
RegexCons(b, rest) ==
  IF b.r = "raise" THEN [raised |-> TRUE, exc |-> b.exc, markers |-> <<>>]
  ELSE IF rest.raised THEN rest
  ELSE IF b.r = "append" THEN [raised |-> FALSE, exc |-> "none",
                               markers |-> <<b.m>> \o rest.markers]
  ELSE rest

RECURSIVE RegexLines(_)
\* "for line in lines": [raised, exc, markers]
RegexLines(lines) ==
  IF lines = <<>> THEN [raised |-> FALSE, exc |-> "none", markers |-> <<>>]
  ELSE RegexCons(IF StripLine(Head(lines)) = "" THEN [r |-> "none"]
                 ELSE RegexLine(StripLine(Head(lines))),
                 RegexLines(Tail(lines)))

RECURSIVE RegexDedupLast(_, _)
\* A deduplication that keeps the last marker of each lowercase name
RegexDedupLast(ms, seen) ==
  IF ms = <<>> THEN <<>>
  ELSE IF \E j \in 2..Len(ms) : Lower(ms[j].name) = Lower(Head(ms).name)
       THEN RegexDedupLast(Tail(ms), seen)
       ELSE <<Head(ms)>> \o RegexDedupLast(Tail(ms), seen)

RECURSIVE DedupFirst(_, _)
\* "Deduplicate by name": the first marker of each lowercase name is kept
DedupFirst(ms, seen) ==
  IF ms = <<>> THEN <<>>
  ELSE LET m == Head(ms)
           k == Lower(m.name)
       IN  IF k \in seen THEN DedupFirst(Tail(ms), seen)
           ELSE <<m>> \o DedupFirst(Tail(ms), seen \cup {k})

RegexResult(found) ==
  IF found.raised THEN found
  ELSE [raised |-> FALSE, exc |-> "none", markers |-> DedupFirst(found.markers, {})]

\* extract_markers_regex(raw_text): [raised, exc, markers]
extract_markers_regex(text) == RegexResult(RegexLines(text))

\* ------------------------------------------------------------------------
\* process_with_vision
\* ------------------------------------------------------------------------

VisionCons(made, rest) ==
  IF made.ok /\ rest.ok THEN [ok |-> TRUE, markers |-> <<made.m>> \o rest.markers]
  ELSE [ok |-> FALSE, markers |-> <<>>]

\* BloodworkMarker(**m), which needs a mapping m
MarkerFromDict(m) ==
  IF m.t # "obj" THEN [ok |-> FALSE]
  ELSE BloodworkMarker(m.name, m.value, m.unit, m.reference_low, m.reference_high, m.flag)

RECURSIVE VisionEntries(_)
\* [BloodworkMarker(**m) for m in ...]: any failing entry fails the whole
\* comprehension
VisionEntries(items) ==
  IF items = <<>> THEN [ok |-> TRUE, markers |-> <<>>]
  ELSE VisionCons(MarkerFromDict(Head(items)), VisionEntries(Tail(items)))

\* return [], None, 0.0
VisionFailed(outcome) ==
  [markers |-> <<>>, raw_text |-> None, confidence |-> JNum(0), outcome |-> outcome]

VisionParsed(parsed, made) ==
  IF ~made.ok THEN VisionFailed("error")
  ELSE [markers    |-> made.markers,
        raw_text   |-> Get(parsed.raw_text, None),
        confidence |-> Get(parsed.confidence, JNum(500)),
        outcome    |-> "parsed"]

\* "if json_match:" with its return, and "return [], content, 0.3" otherwise
VisionOfJson(parsed) ==
  IF parsed.t = "no_match"
  THEN [markers |-> <<>>, raw_text |-> [t |-> "content"], confidence |-> JNum(300),
        outcome |-> "prose"]
  ELSE IF parsed.t = "invalid" THEN VisionFailed("invalid_json")
  ELSE IF ~IterOf(MarkersOf(parsed)).ok THEN VisionFailed("error")
  ELSE VisionParsed(parsed, VisionEntries(IterOf(MarkersOf(parsed)).items))

\* process_with_vision(img) after img.save succeeded, for a given reply of
\* the endpoint: [markers, raw_text, confidence, outcome]
process_with_vision(reply) ==
  IF reply.kind = "timeout" THEN VisionFailed("timeout")
  ELSE IF reply.kind # "ok" THEN VisionFailed("error")
  ELSE VisionOfJson(ExtractJson(reply.content))

\* ------------------------------------------------------------------------
\* Inputs of the model: requests, engine outputs and model replies
\* ------------------------------------------------------------------------

\* Largest number of pages of a PDF
MaxPages == 2

\* The requests: a PDF by its content type, a PDF by its file name, an image
Requests ==
  { [content_type |-> "application/pdf", filename |-> <<"s", "c", "a", "n", ".", "p", "n", "g">>],
    [content_type |-> "image/png", filename |-> <<"s", "c", "a", "n", ".", "P", "D", "F">>],
    [content_type |-> "image/png", filename |-> <<"s", "c", "a", "n", ".", "p", "n", "g">>] }

EndsWith(s, suffix) ==
  Len(s) >= Len(suffix) /\ SubSeq(s, Len(s) - Len(suffix) + 1, Len(s)) = suffix

\* content_type == "application/pdf" or filename.lower().endswith(".pdf")
IsPdf(content_type, filename) ==
  content_type = "application/pdf" \/ EndsWith(Lower(filename), <<".", "p", "d", "f">>)

\* What pytesseract.image_to_string returns: a text, before .strip()
EngineTexts ==
  { <<>>,
    <<" ">>,
    <<"", "Glucose 95 mg/dL (70-100)", "HbA1c 5.4 %", "HDL 55 mg/dL", "\f">>,
    <<"Glucose 95 mg/dL (70-100)", "glucose 98 mg/dL", "A1c 5.4%">>,
    <<"Patient report generated by laboratory information system²">>,
    <<"Patient report generated by laboratory information system²", "HDL: 55", "LDL: 130">> }

\* An engine call returns a text or raises
EngineOutcomes == {[raised |-> TRUE]} \cup {[raised |-> FALSE, text |-> t] : t \in EngineTexts}

sGlucose == <<"G", "l", "u", "c", "o", "s", "e">>

sglucose == <<"g", "l", "u", "c", "o", "s", "e">>

sHDL == <<"H", "D", "L">>

sA1c == <<"A", "1", "c">>

sMgDl == <<"m", "g", "/", "d", "L">>

sPercent == <<"%">>

\* A JSON object of a "markers" list whose keys reference_low,
\* reference_high and flag are absent
Entry(name, value, unit) ==
  [t |-> "obj", name |-> name, value |-> value, unit |-> unit,
   reference_low |-> Missing, reference_high |-> Missing, flag |-> Missing]

\* The JSON object {"markers": [...], "confidence": ...}
Parsed(items, conf) ==
  [t |-> "obj", markers |-> [t |-> "list", items |-> items],
   confidence |-> conf, raw_text |-> Missing]

Prose == [c |-> "prose"]

Object(json) == [c |-> "object", json |-> json]

Ok(content) == [kind |-> "ok", content |-> content]

eGlucose95 == Entry(JStr(sGlucose), JNum(9500), JStr(sMgDl))

eGlucose98 == Entry(JStr(sglucose), JStr(<<"9", "8", " ", "m", "g", "/", "d", "L">>), JStr(sMgDl))

eHDLNoUnit == Entry(JStr(sHDL), JNum(5500), Missing)

eA1c == Entry(JStr(sA1c), JNum(540), JStr(sPercent))

eHDL == Entry(JStr(sHDL), JNum(5500), JStr(sMgDl))

\* {"name": " ", "value": 1.0, "unit": "mg/dL"}
eBlankName == Entry(JStr(<<" ">>), JNum(100), JStr(sMgDl))

\* Replies of the chat-completion endpoint to the structured parser
LLMReplies ==
  { [kind |-> "timeout"],
    [kind |-> "http_error"],
    Ok(<<Prose>>),
    Ok(<<Object(Invalid)>>),
    Ok(<<Prose, Object(Parsed(<<eGlucose95>>, JNum(873))), Prose>>),
    Ok(<<Object(Parsed(<<eGlucose98, eHDLNoUnit, eHDL, eA1c>>, JNum(1500)))>>),
    Ok(<<Object(Parsed(<<eA1c>>, JStr(<<"h", "i", "g", "h">>)))>>),
    Ok(<<Object(Parsed(<<>>, JNum(900)))>>),
    Ok(<<Object(Parsed(<<eGlucose95>>, Missing))>>),
    Ok(<<Object(Parsed(<<eHDL>>, JBool(TRUE)))>>) }

\* Replies of the endpoint to the vision fallback
VisionReplies ==
  { [kind |-> "timeout"],
    [kind |-> "http_error"],
    Ok(<<Prose>>),
    Ok(<<Object(Invalid)>>),
    Ok(<<Object(Parsed(<<eA1c, eBlankName>>, JNum(700)))>>),
    Ok(<<Object(Parsed(<<>>, JNum(700)))>>),
    Ok(<<Object(Parsed(<<eGlucose95, eHDLNoUnit>>, JNum(155)))>>),
    Ok(<<Object(Parsed(<<eGlucose95>>, Missing))>>) }

\* What parse_markers_with_llm returns for the replies
LLMResults == {parse_markers_with_llm(reply) : reply \in LLMReplies}

\* What process_with_vision returns for the replies
VisionResults == {process_with_vision(reply) : reply \in VisionReplies}

\* The texts extract_text_tesseract returns
RecognizedTexts == {StripText(t) : t \in EngineTexts}

\* What extract_markers_regex returns for each recognized text
RegexResults == [t \in RecognizedTexts |-> extract_markers_regex(t)]

\* An image: save_ok tells whether img.save(buffer, format="PNG") succeeds
\* (it raises OSError for an image whose mode PNG cannot hold or whose data
\* is truncated).  The pages rendered from a PDF are PNG images.
UploadedImages == {[save_ok |-> TRUE], [save_ok |-> FALSE]}

RenderedPage == [save_ok |-> TRUE]

\* ------------------------------------------------------------------------
\* State of one call of process_single_file
\* ------------------------------------------------------------------------

VARIABLES
  request,           \* [content_type, filename]
  pc,                \* position of the call
  images,            \* the decoded pages
  i,                 \* number of the page being processed (1-based)
  strategy,          \* extract_text_tesseract: index into strategies
  psm,               \* extract_text_tesseract: index into psm_modes
  best_text,         \* extract_text_tesseract
  best_length,       \* extract_text_tesseract
  attempts,          \* engine calls made for this page (history)
  top_score,         \* highest score of the grid's attempts for this page (history)
  outscored,         \* two texts of the grid scored differently, both above 0 (history)
  last_resort,       \* un-preprocessed engine calls made for this page (history)
  skipped,           \* strategies whose preprocessing failed for this page (history)
  engine_failed,     \* an engine call of the grid raised, recorded when
                     \* extract_text_tesseract is called on its own (history)
  raw_text,          \* process_image_ocr
  markers,           \* process_image_ocr
  confidence,        \* process_image_ocr
  all_markers,       \* process_single_file
  all_text_parts,    \* process_single_file
  total_confidence,  \* process_single_file
  page_count,        \* process_single_file
  result,            \* the OCRResponse returned, NoResult before
  log,               \* the stages run for the current page, in order (history)
  pageState,         \* state of each decoded page (history)
  raisedIn,          \* where an exception was raised, NotRaised before (history)
  page_conf,         \* the confidence process_image_ocr returned for each page (history)
  call               \* a call of one of the pure functions: [fn, arg, ret]

ocrVars == <<strategy, psm, best_text, best_length, attempts, top_score, outscored,
            last_resort, skipped, engine_failed>>

pageVars == <<raw_text, markers, confidence>>

accVars == <<all_markers, all_text_parts, total_confidence, page_count>>

vars == <<request, pc, images, i, strategy, psm, best_text, best_length, attempts,
          top_score, outscored, last_resort, skipped, engine_failed,
              raw_text, markers, confidence, all_markers, all_text_parts,
          total_confidence, page_count, result, log, pageState, raisedIn,
          page_conf, call>>

strategies == <<"standard", "high_contrast", "photo">>

psm_modes == <<3, 6, 4>>

\* if len(raw_text) > 50
MinTextLen == 50

use_vision_fallback == TRUE

NoResult == [t |-> "none"]

NotRaised == [stage |-> "none", page |-> 0, exc |-> "none"]

\* No pure function is being called on its own
NoCall == [fn |-> "none", arg |-> <<>>, ret |-> <<>>]

OCRResponse(ms, text, conf) ==
  [t |-> "OCRResponse", markers |-> ms, raw_text |-> text, confidence |-> conf]

\* An except clause answering with the regex stage's default confidence
HalfConfidenceResponse == OCRResponse(<<>>, None, JNum(500))

\* The response of the except clause of process_single_file
EmptyResponse == OCRResponse(<<>>, None, JNum(0))

\* The exceptions the stages and the aggregation raise; all derive from
\* Exception
ExceptionTypes == {"ValueError", "OSError", "IndexError", "TypeError", "OverflowError"}

\* A handler written as "except ValueError"
CaughtValueErrorOnly(exc) == exc = "ValueError"

\* "except Exception as e" of process_single_file
CaughtByExcept(exc) == exc \in ExceptionTypes

TerminalStates == {"ParsedByLLM", "ParsedByRegex", "ParsedByVision", "Empty"}

\* A stage run for a page: the text it was given, how it ended ("ok" and
\* "parsed" for a return, "prose" for the vision reply without JSON, "failed"
\* for a handled failure of the call, "raise" for an exception), the number
\* of markers it returned and the confidence it returned with them
Event(page, stage, text, outcome, n, conf) ==
  [page |-> page, stage |-> stage, text |-> text,
   outcome |-> IF outcome \in {"ok", "parsed", "prose", "raise"} THEN outcome ELSE "failed",
   n |-> n, conf |-> conf]

Init ==
  /\ request \in Requests
  /\ pc = "decode"
  /\ images = <<>>
  /\ i = 0
  /\ strategy = 1 /\ psm = 1 /\ best_text = <<>> /\ best_length = 0 /\ attempts = 0
  /\ raw_text = <<>> /\ markers = <<>> /\ confidence = JNum(0)
  /\ all_markers = <<>> /\ all_text_parts = <<>>
  /\ total_confidence = Float0 /\ page_count = 0
  /\ result = NoResult
  /\ log = <<>>
  /\ pageState = <<>>
  /\ raisedIn = NotRaised
  /\ page_conf = <<>>
  /\ top_score = 0 /\ outscored = FALSE /\ last_resort = 0
  /\ skipped = 0 /\ engine_failed = FALSE
  /\ call = NoCall

\* An exception exc raised at the given stage of page p reaches the
\* try/except of process_single_file
Raise(exc, stage, p) ==
  /\ raisedIn' = [stage |-> stage, page |-> p, exc |-> exc]
  /\ IF CaughtByExcept(exc)
     THEN pc' = "returned" /\ result' = EmptyResponse
     ELSE pc' = "raised" /\ result' = result

\* The entry of process_image_ocr and of extract_text_tesseract for page p
StartPage(p) ==
  /\ i' = p
  /\ pc' = "preprocess"
  /\ strategy' = 1 /\ psm' = 1 /\ best_text' = <<>> /\ best_length' = 0
  /\ attempts' = 0
  /\ top_score' = 0 /\ outscored' = FALSE /\ last_resort' = 0
  /\ skipped' = 0 /\ engine_failed' = FALSE
  /\ raw_text' = <<>> /\ markers' = <<>> /\ confidence' = JNum(0)
  /\ log' = <<>>

RECURSIVE DedupKeepFirst(_, _)
\* A deduplication that keeps the marker first seen for each name
DedupKeepFirst(ms, acc) ==
  IF ms = <<>> THEN acc
  ELSE IF \E k \in 1..Len(acc) : Lower(acc[k].name) = Lower(Head(ms).name)
       THEN DedupKeepFirst(Tail(ms), acc)
       ELSE DedupKeepFirst(Tail(ms), Append(acc, Head(ms)))

RECURSIVE DedupLast(_, _)
\* seen_markers[marker.name.lower()] = marker for every marker, then
\* list(seen_markers.values()): a dict keeps the order in which its keys
\* were first inserted and the value last assigned to each key
DedupLast(ms, acc) ==
  IF ms = <<>> THEN acc
  ELSE LET m    == Head(ms)
           key  == Lower(m.name)
           hits == {k \in 1..Len(acc) : Lower(acc[k].name) = key}
       IN  IF hits = {} THEN DedupLast(Tail(ms), Append(acc, m))
           ELSE DedupLast(Tail(ms), [acc EXCEPT ![CHOOSE k \in hits : TRUE] = m])

RECURSIVE JoinParts(_)
\* "\n\n".join(all_text_parts): an empty line between two parts
JoinParts(parts) ==
  IF Len(parts) = 1 THEN parts[1]
  ELSE parts[1] \o <<"">> \o JoinParts(Tail(parts))

\* A bool is a number in Python's arithmetic: 0.0 + True is 1.0 and
\* True / 1 is 1.0
IsNumber(x) == x.t \in {"num", "bool", "double"}

\* The float of a confidence that is a number: a sum of floats, the float
\* the decimal of the reply was read as, or the float of the bool or int
FloatOf(x) ==
  IF x.t = "double" THEN x
  ELSE IF x.t = "bool" THEN FloatOfRatio(IF x.b THEN 1 ELSE 0, 1)
  ELSE FloatOfRatio(x.v, 1000)

\* The thousandths of a confidence that is a number
NumberOf(x) == IF x.t = "bool" THEN (IF x.b THEN 1000 ELSE 0) ELSE x.v

\* The confidences a page can end with that are numbers: those the parser
\* and the vision fallback return, and the 0.5 of the regex fallback
NumberConfidences ==
  {c \in {r.confidence : r \in LLMResults \cup VisionResults} \cup {JNum(500)} : IsNumber(c)}

RECURSIVE TotalsAfter(_)
\* The values total_confidence can have after n pages of a PDF
TotalsAfter(n) ==
  IF n = 0 THEN {Float0}
  ELSE {FloatAdd(t, FloatOf(c)) : t \in TotalsAfter(n - 1), c \in NumberConfidences}

\* total_confidence + confidence for each of these totals and confidences,
\* computed once
Added ==
  [total \in UNION {TotalsAfter(n) : n \in 0..(MaxPages - 1)}, conf \in NumberConfidences |->
     FloatAdd(FloatOf(total), FloatOf(conf))] @@ <<>>

\* round(total_confidence / page_count, 2) in hundredths for each of these
\* totals, and for the confidence of a single image, computed once
Averaged ==
  [total \in UNION {TotalsAfter(n) : n \in 1..MaxPages} \cup NumberConfidences,
   count \in 1..MaxPages |-> Round2(FloatDiv(FloatOf(total), count))] @@ <<>>

\* The exception of an arithmetic operation on a value that is no number
ArithmeticError(x) == IF x.t = "bigint" THEN "OverflowError" ELSE "TypeError"

\* The statements after the page loop: the deduplication, the average and
\* the OCRResponse returned, for the values ms, parts, total and count of
\* all_markers, all_text_parts, total_confidence and page_count.
\* total_confidence / page_count raises TypeError when total_confidence is
\* not a number (the image branch assigns it without adding).
Finish(ms, parts, total, count) ==
  IF count > 0 /\ ~IsNumber(total)
  THEN Raise(ArithmeticError(total), "aggregate", i)
  ELSE /\ result' = OCRResponse(
              DedupLast(ms, <<>>),
              IF parts # <<>> THEN [t |-> "str", lines |-> JoinParts(parts)] ELSE None,
              JNum(IF count > 0 THEN 10 * Averaged[total, count] ELSE 0))
       /\ pc' = "returned"
       /\ UNCHANGED raisedIn

\* pdf_to_images(file_bytes) or Image.open(io.BytesIO(file_bytes))
Decode ==
  /\ pc = "decode"
  /\ UNCHANGED <<request, accVars, page_conf, call>>
  /\ \/ \* the rasterizer or the image decoder raises
        /\ Raise(IF IsPdf(request.content_type, request.filename)
                 THEN "ValueError" ELSE "OSError", "decode", 0)
        /\ UNCHANGED <<images, i, ocrVars, pageVars, pageState, log>>
     \/ \* a PDF of n pages, n >= 1, or an image
        /\ \E imgs \in IF IsPdf(request.content_type, request.filename)
                       THEN {[k \in 1..n |-> RenderedPage] : n \in 1..MaxPages}
                       ELSE {<<img>> : img \in UploadedImages} :
             /\ images' = imgs
             /\ pageState' = [k \in 1..Len(imgs) |-> "Decoded"]
        /\ StartPage(1)
        /\ UNCHANGED <<result, raisedIn>>
     \/ \* a PDF without pages: the page loop is not entered
        /\ IsPdf(request.content_type, request.filename)
        /\ images' = <<>>
        /\ Finish(all_markers, all_text_parts, total_confidence, page_count)
        /\ UNCHANGED <<i, ocrVars, pageVars, pageState, log>>

\* The end of "for strategy in strategies" for the current strategy
NextStrategy ==
  IF strategy < Len(strategies)
  THEN strategy' = strategy + 1 /\ psm' = 1 /\ pc' = "preprocess"
  ELSE strategy' = strategy /\ psm' = psm /\ pc' = "ocr_done"

\* processed = preprocess_image(img.copy(), strategy), inside the outer try
Preprocess ==
  /\ pc = "preprocess"
  /\ UNCHANGED <<request, images, i, best_text, best_length, attempts, top_score,
                 outscored, last_resort, engine_failed,
                 pageVars, accVars, result, log, raisedIn, page_conf, call>>
  /\ pageState' = [pageState EXCEPT ![i] = "Preprocessed"]
  /\ \/ pc' = "ocr" /\ UNCHANGED <<strategy, psm, skipped>>
     \/ \* preprocessing failed: logged, continue with the next strategy
        NextStrategy /\ skipped' = skipped + 1

\* score = len(text) + (has_numbers * 2)
Score(text) == TextLen(text) + TextDigits(text) * 2

\* A comparison that takes every attempt's text as the best one
BetterAlways(score, best) == TRUE

\* if score > best_length
Better(score, best) == score > best

\* extract_text_tesseract is called on its own
GridWatched == call.fn = "extract_text_tesseract"

\* An inner handler that leaves the grid at the first engine failure
StopAtEngineFailure(failed) == failed

\* except Exception: logger.debug(...); continue -- the psm loop goes on
EngineFailureEndsGrid(failed) == FALSE

\* One pytesseract.image_to_string(processed, config) of the grid
OcrAttempt ==
  /\ pc = "ocr"
  /\ UNCHANGED <<request, images, i, pageVars, accVars, result, log, pageState, raisedIn,
                 page_conf, call, last_resort, skipped>>
  /\ attempts' = attempts + 1
  /\ \E out \in EngineOutcomes :
       /\ IF EngineFailureEndsGrid(out.raised)
          THEN pc' = "ocr_done" /\ UNCHANGED <<strategy, psm>>
          ELSE IF psm < Len(psm_modes)
               THEN psm' = psm + 1 /\ pc' = "ocr" /\ strategy' = strategy
               ELSE NextStrategy
       /\ IF out.raised
          THEN /\ engine_failed' = (engine_failed \/ GridWatched)
               /\ UNCHANGED <<best_text, best_length, top_score, outscored>>
          ELSE LET text == StripText(out.text)
               IN  /\ UNCHANGED engine_failed
                   /\ top_score' = IF Score(text) > top_score THEN Score(text) ELSE top_score
                   /\ outscored' = (outscored \/ (top_score > 0 /\ Score(text) > 0
                                                  /\ Score(text) # top_score))
                   /\ IF Better(Score(text), best_length)
                      THEN best_length' = Score(text) /\ best_text' = text
                      ELSE UNCHANGED <<best_text, best_length>>

\* ------------------------------------------------------------------------
\* process_image_ocr: which stage runs next
\* ------------------------------------------------------------------------

\* A parser guard written as len(raw_text) >= 50
RunLLMAtLeast(text) == TextLen(text) >= MinTextLen

\* Step 2: if len(raw_text) > 50
RunLLM(text) == TextLen(text) > MinTextLen

\* Step 3: if not markers and len(raw_text) > 50
RunRegex(ms, text) == ms = <<>> /\ TextLen(text) > MinTextLen

\* A vision guard written as "if use_vision_fallback"
RunVisionAlways(ms) == use_vision_fallback

\* Step 4: if not markers and use_vision_fallback
RunVision(ms) == ms = <<>> /\ use_vision_fallback

AfterRegex(ms) == IF RunVision(ms) THEN "vision" ELSE "accumulate"

\* A pipeline that asks the parser again when it returned no markers
AfterLLMRetry(ms, text) ==
  IF ms = <<>> /\ TextLen(text) > MinTextLen THEN "llm" ELSE AfterRegex(ms)

\* A pipeline that goes from the parser to the vision fallback
AfterLLMSkipRegex(ms, text) == AfterRegex(ms)

AfterLLM(ms, text) == IF RunRegex(ms, text) THEN "regex" ELSE AfterRegex(ms)

AfterOcr(text) == IF RunLLM(text) THEN "llm" ELSE AfterLLM(<<>>, text)

\* The state of the page once the stage named by source has run and the
\* pipeline goes on at position next: terminal when process_image_ocr returns
PageStateAfter(next, ms, source) ==
  IF next # "accumulate" THEN "Recognized"
  ELSE IF ms = <<>> THEN "Empty"
  ELSE source

\* A function that makes the un-preprocessed call whatever the grid gave
LastResortAlways(text) == TRUE

\* if not best_text
NeedsLastResort(text) == text = <<>>

\* The end of extract_text_tesseract: the last resort without preprocessing
\* when no attempt of the grid gave text, then "return best_text" into
\* raw_text of process_image_ocr
OcrReturn ==
  /\ pc = "ocr_done"
  /\ UNCHANGED <<request, images, i, strategy, psm, best_length, top_score, outscored,
                 skipped, engine_failed,
                 accVars,
                 result, raisedIn, page_conf, call>>
  /\ \/ /\ ~NeedsLastResort(best_text)
        /\ UNCHANGED <<best_text, attempts, last_resort>>
     \/ /\ NeedsLastResort(best_text)
        /\ attempts' = attempts + 1
        /\ last_resort' = last_resort + 1
        /\ \E out \in EngineOutcomes :
             best_text' = IF out.raised THEN <<>> ELSE StripText(out.text)
  /\ raw_text' = best_text'
  /\ markers' = <<>>
  /\ confidence' = JNum(0)
  /\ log' = Append(log, Event(i, "ocr", best_text', "ok", 0, JNum(0)))
  /\ pc' = AfterOcr(best_text')
  /\ pageState' = [pageState EXCEPT ![i] = PageStateAfter(pc', <<>>, "none")]

\* markers, confidence = await parse_markers_with_llm(raw_text)
LLMStep ==
  /\ pc = "llm"
  /\ UNCHANGED <<request, images, i, ocrVars, raw_text, accVars, result, raisedIn,
                 page_conf, call>>
  /\ \E r \in LLMResults :
       /\ markers' = r.markers
       /\ confidence' = r.confidence
       /\ log' = Append(log, Event(i, "llm", raw_text, r.outcome, Len(r.markers),
                                   r.confidence))
  /\ pc' = AfterLLM(markers', raw_text)
  /\ pageState' = [pageState EXCEPT ![i] = PageStateAfter(pc', markers', "ParsedByLLM")]

\* A regex stage that leaves the confidence the parser reported
RegexKeepsConfidence(ms, conf) == conf

\* if markers: confidence = 0.5
RegexConfidence(ms, conf) == IF ms # <<>> THEN JNum(500) ELSE conf

\* markers = extract_markers_regex(raw_text); if markers: confidence = 0.5
RegexStep ==
  /\ pc = "regex"
  /\ UNCHANGED <<request, images, i, ocrVars, raw_text, accVars, page_conf, call>>
  /\ \E r \in {RegexResults[raw_text]} :
         IF r.raised
         THEN /\ Raise(r.exc, "regex", i)
              /\ log' = Append(log, Event(i, "regex", raw_text, "raise", 0, confidence))
              /\ pageState' = [pageState EXCEPT ![i] = "Aborted"]
              /\ UNCHANGED <<markers, confidence>>
         ELSE /\ markers' = r.markers
              /\ confidence' = RegexConfidence(r.markers, confidence)
              /\ log' = Append(log, Event(i, "regex", raw_text, "ok", Len(r.markers),
                                          confidence'))
              /\ pc' = AfterRegex(r.markers)
              /\ pageState' = [pageState EXCEPT
                                 ![i] = PageStateAfter(pc', r.markers, "ParsedByRegex")]
              /\ UNCHANGED <<result, raisedIn>>

\* A fallback whose page text is the text of the vision reply, when it has one
VisionTextKept(text, r) ==
  IF r.raw_text.t = "null" THEN text ELSE <<"text of the vision reply">>

\* "markers, _, confidence = ..." and "return markers, raw_text, confidence":
\* the page text after the vision result r is the recognized text
PageText(text, r) == text

\* markers, _, confidence = await process_with_vision(img)
VisionStep ==
  /\ pc = "vision"
  /\ UNCHANGED <<request, images, i, ocrVars, accVars, page_conf, call>>
  /\ IF ~images[i].save_ok
     THEN \* img.save(buffer, format="PNG") is outside the try of process_with_vision
          /\ Raise("OSError", "vision", i)
          /\ log' = Append(log, Event(i, "vision", <<>>, "raise", 0, confidence))
          /\ pageState' = [pageState EXCEPT ![i] = "Aborted"]
          /\ UNCHANGED <<markers, confidence, raw_text>>
     ELSE /\ \E r \in VisionResults :
               /\ raw_text' = PageText(raw_text, r)
               /\ markers' = r.markers
               /\ confidence' = r.confidence
               /\ log' = Append(log, Event(i, "vision", <<>>, r.outcome, Len(r.markers),
                                           r.confidence))
          /\ pc' = "accumulate"
          /\ pageState' = [pageState EXCEPT
                             ![i] = PageStateAfter("accumulate", markers', "ParsedByVision")]
          /\ UNCHANGED <<result, raisedIn>>

\* ------------------------------------------------------------------------
\* process_single_file: the page loop and the aggregation
\* ------------------------------------------------------------------------

\* f"--- Page {i+1} ---\n{raw_text}" (the model's page numbers start at 1)
PagePart(p, text) == <<"--- Page " \o ToString(p) \o " ---">> \o text

\* The statements after "await process_image_ocr(img)" for one page, in the
\* PDF branch and in the image branch; after the last page, the statements
\* after the loop.  total_confidence += confidence raises TypeError when the
\* stage returned a confidence that is not a number; a bool is one.
Accumulate ==
  /\ pc = "accumulate"
  /\ UNCHANGED <<request, images, pageState, call>>
  /\ all_markers' = all_markers \o markers
  /\ page_conf' = Append(page_conf, confidence)
  /\ IF IsPdf(request.content_type, request.filename)
     THEN /\ all_text_parts' = IF raw_text # <<>>
                               THEN Append(all_text_parts, PagePart(i, raw_text))
                               ELSE all_text_parts
          /\ IF ~IsNumber(confidence)
             THEN /\ Raise(ArithmeticError(confidence), "accumulate", i)
                  /\ UNCHANGED <<total_confidence, page_count, i, ocrVars, pageVars, log>>
             ELSE /\ total_confidence' = Added[total_confidence, confidence]
                  /\ page_count' = page_count + 1
                  /\ IF i < Len(images)
                     THEN StartPage(i + 1) /\ UNCHANGED <<result, raisedIn>>
                     ELSE /\ Finish(all_markers', all_text_parts', total_confidence',
                                    page_count')
                          /\ UNCHANGED <<i, ocrVars, pageVars, log>>
     ELSE /\ all_text_parts' = IF raw_text # <<>>
                               THEN Append(all_text_parts, raw_text)
                               ELSE all_text_parts
          /\ total_confidence' = confidence
          /\ page_count' = 1
          /\ Finish(all_markers', all_text_parts', total_confidence', page_count')
          /\ UNCHANGED <<i, ocrVars, pageVars, log>>

Next ==
  \/ Decode
  \/ Preprocess
  \/ OcrAttempt
  \/ OcrReturn
  \/ LLMStep
  \/ RegexStep
  \/ VisionStep
  \/ Accumulate

Spec == Init /\ [][Next]_vars

\* ------------------------------------------------------------------------
\* The pure functions called on their own
\* ------------------------------------------------------------------------

procVars == <<request, pc, images, i, strategy, psm, best_text, best_length, attempts,
              top_score, outscored, last_resort, skipped, engine_failed,
              raw_text, markers, confidence, all_markers, all_text_parts,
              total_confidence, page_count, result, log, pageState, raisedIn,
              page_conf>>

AliasValues == {MARKER_ALIASES[j][2] : j \in 1..Len(MARKER_ALIASES)}

\* Names given to normalize_marker_name: the keys of the table, bare and
\* surrounded by whitespace, its canonical names, and names in other cases
\* and outside the table; a name between a form feed and a no-break space,
\* and a name with an accented capital
NameInputs ==
  AliasKeys \cup AliasValues
    \cup {<<" ">> \o k \o <<" ", " ">> : k \in AliasKeys}
    \cup { <<>>, <<" ", " ">>,
           <<" ", "A", "1", "C", " ">>,
           <<"L", "D", "L", "-", "C">>,
           <<" ", "L", "d", "l", "-", "c">>,
           <<"F", "o", "o", " ", "B", "a", "r">>,
           <<"\f", "H", "D", "L", " ">>,
           <<"H", "É", "M", "O", "G", "L", "O", "B", "I", "N", "E", "\f">>,
           <<" ", " ", "S", "e", "r", "u", "m", " ", "Z", "i", "n", "c", " ", "X", " ">> }

FnInit ==
  /\ request = [content_type |-> "none", filename |-> <<>>]
  /\ pc = "fn"
  /\ images = <<>>
  /\ i = 0
  /\ strategy = 1 /\ psm = 1 /\ best_text = <<>> /\ best_length = 0 /\ attempts = 0
  /\ top_score = 0 /\ outscored = FALSE /\ last_resort = 0
  /\ skipped = 0 /\ engine_failed = FALSE
  /\ raw_text = <<>> /\ markers = <<>> /\ confidence = JNum(0)
  /\ all_markers = <<>> /\ all_text_parts = <<>>
  /\ total_confidence = Float0 /\ page_count = 0
  /\ result = NoResult
  /\ log = <<>>
  /\ pageState = <<>>
  /\ raisedIn = NotRaised
  /\ page_conf = <<>>
  /\ call = NoCall

\* normalize_marker_name(name)
FnNormalize ==
  /\ pc = "fn"
  /\ \E name \in NameInputs :
       call' = [fn |-> "normalize_marker_name", arg |-> name,
                ret |-> normalize_marker_name(name)]
  /\ UNCHANGED procVars

\* Texts whose lines all have the form "name: value [unit]"
ColonTexts ==
  { <<"HDL: 55", "LDL: 130">>,
    <<"HDL: 55">>,
    <<"LDL: 130", "HDL: 55">>,
    <<"HDL: 55 mg/dL">>,
    <<"Glucose: 95 mg/dL", "HDL: 55 mg/dL">>,
    <<"Na: 140">> }

\* Texts given to extract_markers_regex
RegexTexts ==
  RecognizedTexts \cup ColonTexts
    \cup { <<"HDL 55">>,
           <<"HDL 55 mg/dL">>,
           <<"Glucose 95 mg/dL", "", "glucose 98 mg/dL">>,
           <<"HDL 55 mg/dL", "HDL: 55">> }

FnRegex ==
  /\ pc = "fn"
  /\ \E text \in RegexTexts :
       call' = [fn |-> "extract_markers_regex", arg |-> text,
                ret |-> extract_markers_regex(text)]
  /\ UNCHANGED procVars

\* A JSON object without a "markers" key, such as
\* {"biomarkers": [...], "confidence": 0.9}
NoMarkersKey(conf) ==
  [t |-> "obj", markers |-> Missing, confidence |-> conf, raw_text |-> Missing]

\* The JSON object {"markers": x, "confidence": ...} for a value x
MarkersValue(x, conf) ==
  [t |-> "obj", markers |-> x, confidence |-> conf, raw_text |-> Missing]

sNA == <<"N", "/", "A">>

\* Values of the "value" key that are no number
OddValues ==
  { Missing, None, JStr(sNA), JStr(<<"1", ".", "2", ".", "3">>), JStr(<<"-">>),
    [t |-> "list", items |-> <<>>], JBool(FALSE), JBool(TRUE), BigInt }

\* Values of the "value" key that are a str of a number: "1.234", "1e5" (of
\* which re.sub keeps "15"), a digit of another script, and "9 5", which is
\* 95 without its space
NumericStrings ==
  { JStr(<<"1", ".", "2", "3", "4">>), JStr(<<"1", "e", "5">>), JStr(<<"۵">>),
    JStr(<<"9", " ", "5">>) }

\* {"name": "HDL", "value": 55, "unit": "mg/dL", "reference_low": "1e2",
\*  "reference_high": true}
eHDLOddRange ==
  [eHDL EXCEPT !.reference_low = JStr(<<"1", "e", "2">>), !.reference_high = JBool(TRUE)]

\* Replies given to parse_markers_with_llm: those of the pipeline, replies
\* of another structure, and replies with one entry whose value is no number
\* or the str of a number between two entries that are in order
ParseReplies ==
  LLMReplies
    \cup { [kind |-> "bad_shape"],
           Ok(<<Prose, [c |-> "open"], Prose>>),
           Ok(<<Object(Parsed(<<eGlucose95>>, JNum(900))), Prose, [c |-> "close"]>>),
           Ok(<<Prose, [c |-> "open"], Prose, Object(Parsed(<<eGlucose95>>, JNum(900)))>>),
           Ok(<<Prose, Object(Parsed(<<eGlucose95>>, JNum(900))), Prose,
                Object(Parsed(<<eA1c>>, JNum(900)))>>),
           Ok(<<Object(NoMarkersKey(JNum(900)))>>),
           Ok(<<Object(NoMarkersKey(Missing))>>),
           Ok(<<Object(MarkersValue(None, JNum(900)))>>),
           Ok(<<Object(MarkersValue(JStr(<<>>), JNum(900)))>>),
           Ok(<<Object(MarkersValue(JStr(sNA), JNum(900)))>>),
           Ok(<<Object(MarkersValue(eGlucose95, JNum(900)))>>),
           Ok(<<Object(Parsed(<<JStr(sGlucose), eA1c>>, JNum(900)))>>),
           Ok(<<Object(Parsed(<<Entry(None, JNum(9500), JStr(sMgDl)), eA1c>>, JNum(900)))>>) }
    \cup { Ok(<<Object(Parsed(<<eGlucose95, Entry(JStr(sHDL), v, JStr(sMgDl)), eA1c>>,
                              JNum(900)))>>) : v \in OddValues \cup NumericStrings }
    \cup { Ok(<<Object(Parsed(<<eHDLOddRange>>, JNum(900)))>>) }

FnParse ==
  /\ pc = "fn"
  /\ \E reply \in ParseReplies :
       call' = [fn |-> "parse_markers_with_llm", arg |-> reply,
                ret |-> parse_markers_with_llm(reply)]
  /\ UNCHANGED procVars

\* Replies given to process_with_vision: those of the pipeline and replies
\* whose entries need the parser's rules
VisionOnlyReplies ==
  VisionReplies
    \cup { Ok(<<Object(Parsed(<<eGlucose98, eA1c>>, JNum(700)))>>),
           Ok(<<Object(Parsed(<<eGlucose95, eHDL>>, JNum(700)))>>),
           Ok(<<Prose, Object(Parsed(<<eHDL>>, Missing)), Prose>>),
           Ok(<<Object(Parsed(<<eHDL>>, JNum(700))), Prose,
                Object(Parsed(<<eGlucose95>>, JNum(700)))>>),
           Ok(<<Object(Parsed(<<eGlucose95, Entry(JStr(sHDL), None, JStr(sMgDl)), eHDL>>,
                              JNum(700)))>>),
           Ok(<<Object(Parsed(<<Entry(JStr(sHDL), JBool(TRUE), JStr(sMgDl)),
                                 Entry(JStr(sA1c), JStr(<<" ", "1", "e", "2">>), JStr(sPercent)),
                                 Entry(JStr(sGlucose), JStr(<<"1", "_", "0", ".", "2", "3", "4">>),
                                       JStr(sMgDl))>>,
                              JBool(TRUE)))>>) }

FnVision ==
  /\ pc = "fn"
  /\ \E reply \in VisionOnlyReplies :
       call' = [fn |-> "process_with_vision", arg |-> reply,
                ret |-> process_with_vision(reply)]
  /\ UNCHANGED procVars

\* ------------------------------------------------------------------------
\* The callers of process_single_file
\* ------------------------------------------------------------------------

\* 50 * 1024 * 1024
MaxUploadBytes == 52428800

valid_types ==
  {"application/pdf", "image/png", "image/jpeg", "image/jpg", "image/gif", "image/webp",
   "image/tiff"}

valid_suffixes ==
  { <<".", "p", "d", "f">>, <<".", "p", "n", "g">>, <<".", "j", "p", "g">>,
    <<".", "j", "p", "e", "g">>, <<".", "g", "i", "f">>, <<".", "w", "e", "b", "p">>,
    <<".", "t", "i", "f", "f">> }

\* content_type in valid_types or filename.lower().endswith((...))
is_valid(content_type, filename) ==
  \/ content_type \in valid_types
  \/ \E suffix \in valid_suffixes : EndsWith(Lower(filename), suffix)

\* len(file_bytes) > 50 * 1024 * 1024
TooLarge(size) == size > MaxUploadBytes

FileSizes == {0, 1, MaxUploadBytes - 1, MaxUploadBytes, MaxUploadBytes + 1, 2 * MaxUploadBytes}

UploadTypes == valid_types \cup {"", "text/plain", "application/zip"}

UploadNames ==
  { <<"s", "c", "a", "n", ".", "P", "D", "F">>,
    <<"s", "c", "a", "n", ".", "p", "n", "g">>,
    <<"n", "o", "t", "e", "s", ".", "t", "x", "t">>,
    <<"u", "n", "k", "n", "o", "w", "n">>,
    <<>> }

\* The files of a bulk upload: content type and file name as the client
\* sent them ("" and <<>> also for a part sent without one, which the
\* framework gives as None), whether upload_file.read() returns the bytes
\* or raises, and the number of bytes it returns
UploadFiles ==
  [content_type : UploadTypes, filename : UploadNames, size : FileSizes, readable : {TRUE}]
  \cup [content_type : UploadTypes, filename : UploadNames, size : {0}, readable : {FALSE}]

\* The requests of the OCR endpoint: whether image_base64 decodes, and the
\* number of bytes it decodes to
OCRRequests == [decodes : BOOLEAN, size : FileSizes]

\* What a caller did with a file: the arguments it passed to
\* process_single_file, or the reason it did not call it
Passed(content_type, filename, size) ==
  [passed |-> TRUE, content_type |-> content_type, filename |-> filename, size |-> size]

NotPassed(why) == [passed |-> FALSE, why |-> why]

\* filename = upload_file.filename or "unknown"
FilenameOf(f) ==
  IF f.filename = <<>> THEN <<"u", "n", "k", "n", "o", "w", "n">> ELSE f.filename

\* bulk_upload_bloodwork: the body of "for upload_file in files" up to the
\* call of process_single_file; an exception of upload_file.read() is
\* caught by the except clause of the loop body
BulkUploadFile(f) ==
  IF ~is_valid(f.content_type, FilenameOf(f)) THEN NotPassed("Unsupported file type")
  ELSE IF ~f.readable THEN NotPassed("read() raised")
  ELSE IF TooLarge(f.size) THEN NotPassed("File too large (max 50MB)")
  ELSE Passed(f.content_type, FilenameOf(f), f.size)

\* process_ocr: base64.b64decode(image_data), then process_single_file(
\* file_bytes, "uploaded_image", "image/png")
ProcessOcr(body) ==
  IF ~body.decodes THEN NotPassed("b64decode")
  ELSE Passed("image/png",
              <<"u", "p", "l", "o", "a", "d", "e", "d", "_", "i", "m", "a", "g", "e">>,
              body.size)

FnBulkUpload ==
  /\ pc = "fn"
  /\ \E f \in UploadFiles :
       call' = [fn |-> "bulk_upload_bloodwork", arg |-> f, ret |-> BulkUploadFile(f)]
  /\ UNCHANGED procVars

FnProcessOcr ==
  /\ pc = "fn"
  /\ \E body \in OCRRequests :
       call' = [fn |-> "process_ocr", arg |-> body, ret |-> ProcessOcr(body)]
  /\ UNCHANGED procVars

\* ------------------------------------------------------------------------
\* preprocess_image: the size of the image returned
\* ------------------------------------------------------------------------

min_dimension == 1500

max_dimension == 4000

\* scale = target / m; int(x * scale)
Scaled(x, target, m) ==
  Truncated(FloatMul(x, FloatOfRatio(target, m)))

Min(a, b) == IF a < b THEN a ELSE b

Max(a, b) == IF a > b THEN a ELSE b

\* new_size = (int(img.size[0] * scale), int(img.size[1] * scale))
NewSize(size, target, m) == <<Scaled(size[1], target, m), Scaled(size[2], target, m)>>

\* img.resize(new_size, Image.LANCZOS): ValueError for a size with a zero
Resize(new_size) ==
  IF new_size[1] < 1 \/ new_size[2] < 1
  THEN [raised |-> TRUE, exc |-> "ValueError", size |-> new_size]
  ELSE [raised |-> FALSE, exc |-> "none", size |-> new_size]

\* if min(img.size) < min_dimension: ... img = img.resize(new_size, ...)
Upscaled(size) ==
  IF Min(size[1], size[2]) < min_dimension
  THEN Resize(NewSize(size, min_dimension, Min(size[1], size[2])))
  ELSE [raised |-> FALSE, exc |-> "none", size |-> size]

\* if max(img.size) > max_dimension: ... img = img.resize(new_size, ...)
Downscaled(up) ==
  IF up.raised THEN up
  ELSE IF Max(up.size[1], up.size[2]) > max_dimension
       THEN Resize(NewSize(up.size, max_dimension, Max(up.size[1], up.size[2])))
       ELSE up

\* preprocess_image(img, strategy): [raised, exc, size] with the size of the
\* image returned; grayscale, the enhancements of the strategy, the median
\* filter and the threshold keep the size
preprocess_image(size, strat) == Downscaled(Upscaled(size))

\* Widths and heights of the images given to preprocess_image
ImageSides == {1, 91, 182, 100, 1000, 1333, 1500, 3000, 4000, 4001, 10000}

\* The calls of preprocess_image with these images and each strategy
PreprocessCalls ==
  { [fn  |-> "preprocess_image",
     arg |-> [size |-> <<w, h>>, strategy |-> strategies[s]],
     ret |-> preprocess_image(<<w, h>>, strategies[s])] :
      w \in ImageSides, h \in ImageSides, s \in 1..Len(strategies) }

FnPreprocess ==
  /\ pc = "fn"
  /\ \E c \in PreprocessCalls : call' = c
  /\ UNCHANGED procVars

\* ------------------------------------------------------------------------
\* extract_text_tesseract(img) on its own, for one image
\* ------------------------------------------------------------------------

GridInit ==
  /\ request = [content_type |-> "image/png", filename |-> <<>>]
  /\ pc = "preprocess"
  /\ images = <<RenderedPage>>
  /\ i = 1
  /\ strategy = 1 /\ psm = 1 /\ best_text = <<>> /\ best_length = 0 /\ attempts = 0
  /\ top_score = 0 /\ outscored = FALSE /\ last_resort = 0
  /\ skipped = 0 /\ engine_failed = FALSE
  /\ raw_text = <<>> /\ markers = <<>> /\ confidence = JNum(0)
  /\ all_markers = <<>> /\ all_text_parts = <<>>
  /\ total_confidence = Float0 /\ page_count = 0
  /\ result = NoResult
  /\ log = <<>>
  /\ pageState = <<"Decoded">>
  /\ raisedIn = NotRaised
  /\ page_conf = <<>>
  /\ call = [fn |-> "extract_text_tesseract", arg |-> <<>>, ret |-> <<>>]

GridNext ==
  \/ Preprocess
  \/ OcrAttempt
  \/ OcrReturn

GridSpec == GridInit /\ [][GridNext]_vars

FnNext ==
  \/ FnNormalize
  \/ FnRegex
  \/ FnParse
  \/ FnBulkUpload
  \/ FnProcessOcr
  \/ FnVision
  \/ FnPreprocess

FnSpec == FnInit /\ [][FnNext]_vars

TypeOK ==
  /\ pc \in {"decode", "preprocess", "ocr", "ocr_done", "llm", "regex", "vision",
             "accumulate", "returned", "raised"}
  /\ i \in 0..MaxPages
  /\ page_count \in 0..MaxPages
  /\ skipped \in 0..Len(strategies)
  /\ engine_failed \in BOOLEAN

\* ------------------------------------------------------------------------
\* Properties
\* ------------------------------------------------------------------------

Stages == {"llm", "regex", "vision"}

\* The events of the given stage in the log of the current page
EventsOf(stage) == {k \in DOMAIN log : log[k].stage = stage}

\* C1: process_single_file never propagates an exception: whatever is raised
\* while decoding or processing, the call ends by returning an OCRResponse.
NeverPropagates ==
  /\ pc # "raised"
  /\ pc = "returned" => result.t = "OCRResponse"
  /\ raisedIn # NotRaised => pc = "returned" /\ result.t = "OCRResponse"

\* C1: an exception raised by a stage of a page was answered by a response
RaisedInStageAndReturned ==
  /\ pc = "returned"
  /\ raisedIn.stage \in {"regex", "vision", "accumulate", "aggregate"}
  /\ result.t = "OCRResponse"

\* C2: when the input cannot be decoded, the result is exactly markers = [],
\* raw_text = null, confidence = 0.0, and no extraction stage has run.
DecodeFailureIsEmpty ==
  raisedIn.stage = "decode" =>
    /\ pc = "returned"
    /\ result.markers = <<>>
    /\ result.raw_text = None
    /\ result.confidence = JNum(0)
    /\ log = <<>>
    /\ attempts = 0
    /\ pageState = <<>>

\* C2: a decode failure of a PDF and its response
DecodeFailedReturned ==
  /\ pc = "returned"
  /\ raisedIn = [stage |-> "decode", page |-> 0, exc |-> "ValueError"]
  /\ result.markers = <<>>

\* C3: a returned result whose marker list is empty has confidence 0.0
EmptyMarkersZeroConfidence ==
  (pc = "returned" /\ result.markers = <<>>) => result.confidence = JNum(0)

\* C4: the confidence of a returned result lies in [0, 1]
ConfidenceInUnitInterval ==
  pc = "returned" =>
    /\ result.confidence.t = "num"
    /\ result.confidence.v >= 0
    /\ result.confidence.v <= 1000

\* C5: in a multi-page document an exception raised while a page is processed
\* does not cross the page boundary: the markers and the text obtained from
\* the other pages are in the returned result.
PageExceptionContained ==
  (pc = "returned" /\ Len(images) > 1 /\ raisedIn.page >= 1) =>
    /\ \A k \in DOMAIN all_markers :
         \E j \in DOMAIN result.markers :
           Lower(result.markers[j].name) = Lower(all_markers[k].name)
    /\ all_text_parts # <<>> => result.raw_text # None

\* C6: a stage is attempted only if every earlier stage of the page produced
\* no markers.
StageOnlyAfterEmptyStages ==
  \A k \in DOMAIN log :
    log[k].stage \in Stages => \A j \in 1..(k - 1) : log[j].n = 0

\* C6: all three stages ran for a page, each after stages without markers
AllStagesTried ==
  /\ EventsOf("llm") # {}
  /\ EventsOf("regex") # {}
  /\ EventsOf("vision") # {}
  /\ pc = "accumulate"

\* No event is added to the log for a page whose state is terminal
NoStageAfterTerminal ==
  \A p \in DOMAIN pageState :
    pageState[p] \in TerminalStates =>
      \A k \in DOMAIN log' :
        log'[k].page = p => k \in DOMAIN log /\ log[k] = log'[k]

\* C7: for each page the structured parser, the regex fallback and the vision
\* fallback are each invoked at most once, and no stage is entered again after
\* the page has reached a terminal state.
EachStageAtMostOnce ==
  /\ [](\A s \in Stages : Cardinality(EventsOf(s)) <= 1)
  /\ [](\A k \in DOMAIN log : log[k].page = i)
  /\ [][NoStageAfterTerminal]_vars

\* C7: the second page of a document is terminal after its three stages ran
\* once each, the first page being terminal too
SecondPageDone ==
  /\ i = 2
  /\ pageState[1] \in TerminalStates
  /\ pageState[2] \in TerminalStates
  /\ \A s \in Stages : Cardinality(EventsOf(s)) = 1

PageDecoded(p) == p \in DOMAIN pageState

PageTerminal(p) == p \in DOMAIN pageState /\ pageState[p] \in TerminalStates

\* C8: every decoded page reaches one of the terminal states and
\* process_single_file returns.  Nothing runs after the return, so every
\* decoded page has reached its terminal state when the call has returned.
EveryPageTerminates ==
  pc = "returned" => \A p \in 1..MaxPages : PageDecoded(p) => PageTerminal(p)

\* What a step that ran a stage must do next, e being the event it added
FallsThrough(e) ==
  /\ (e.stage = "llm" /\ e.outcome = "failed") =>
        /\ pc' = "regex"
        /\ raw_text' = e.text
        /\ raw_text' = raw_text
        /\ markers' = <<>>
  /\ (e.stage = "regex" /\ e.outcome = "ok" /\ e.n = 0) => pc' = "vision"
  /\ (e.stage = "vision" /\ e.outcome = "failed") =>
        /\ pc' = "accumulate"
        /\ markers' = <<>>
        /\ pageState'[i] = "Empty"
        /\ result' = NoResult
        /\ raisedIn' = NotRaised

\* C9: a failed call of the structured parser is followed by the regex
\* fallback on the same text and, if that finds no markers, by the vision
\* fallback; a failed vision call ends the page with zero markers and the
\* request goes on.
FailuresFallThrough ==
  [][Len(log') = Len(log) + 1 => FallsThrough(log'[Len(log')])]_vars

\* C9: a page whose parser call failed, whose regex stage found nothing and
\* whose vision call failed, ended empty
FailedThroughAllStages ==
  /\ pc = "accumulate"
  /\ \E k \in EventsOf("llm") : log[k].outcome = "failed"
  /\ \E k \in EventsOf("regex") : log[k].outcome = "ok" /\ log[k].n = 0
  /\ \E k \in EventsOf("vision") : log[k].outcome = "failed"
  /\ pageState[i] = "Empty"

\* C10: the structured parser and the regex fallback run only on a text of
\* more than 50 characters; a page whose text has at most 50 characters runs
\* neither.
TextStagesNeedLongText ==
  /\ \A k \in DOMAIN log :
       log[k].stage \in {"llm", "regex"} => TextLen(log[k].text) > MinTextLen
  /\ (pc \in {"llm", "regex"}) => TextLen(raw_text) > MinTextLen
  /\ (pageState # <<>> /\ i >= 1 /\ pageState[i] \in TerminalStates
        /\ TextLen(raw_text) <= MinTextLen) =>
       EventsOf("llm") = {} /\ EventsOf("regex") = {}

\* C10: a page with a text of exactly 50 characters went to the vision
\* fallback without the parser and the regex stage
FiftyCharsSkipTextStages ==
  /\ pc = "accumulate"
  /\ TextLen(raw_text) = MinTextLen
  /\ EventsOf("llm") = {} /\ EventsOf("regex") = {}
  /\ EventsOf("vision") # {}

sHDLCholesterol == <<"H", "D", "L", " ", "C", "h", "o", "l", "e", "s", "t", "e", "r", "o", "l">>

sHbA1c == <<"H", "b", "A", "1", "c">>

\* The markers ms hold a marker of that name and value
Holds(ms, name, value) ==
  \E k \in DOMAIN ms : ms[k].name = name /\ ms[k].value = value

\* C11: after aggregation the result has at most one marker per lowercase
\* name, and for a name that occurs several times across the pages it is the
\* last one in page order.
LastMarkerPerNameKept ==
  (pc = "returned" /\ raisedIn = NotRaised) =>
    /\ \A j, k \in DOMAIN result.markers :
         j # k => Lower(result.markers[j].name) # Lower(result.markers[k].name)
    /\ \A k \in DOMAIN all_markers :
         (\A l \in (k + 1)..Len(all_markers) :
            Lower(all_markers[l].name) # Lower(all_markers[k].name))
         => \E j \in DOMAIN result.markers : result.markers[j] = all_markers[k]
    /\ \A j \in DOMAIN result.markers :
         \E k \in DOMAIN all_markers : result.markers[j] = all_markers[k]

\* C11: page 1 gave Glucose 95, page 2 gave Glucose 98 and HDL 55, and the
\* result holds Glucose 98 and HDL Cholesterol 55 but not Glucose 95
GlucoseOfSecondPageKept ==
  /\ pc = "returned" /\ raisedIn = NotRaised /\ Len(images) = 2
  /\ all_markers # <<>>
  /\ all_markers[1].name = sGlucose /\ all_markers[1].value = 9500
  /\ Holds(result.markers, sGlucose, 9800)
  /\ Holds(result.markers, sHDLCholesterol, 5500)
  /\ ~Holds(result.markers, sGlucose, 9500)

\* C12: the result never holds two markers whose names normalize through
\* the alias table to the same canonical name, whichever stage produced them.
NoTwoMarkersOfOneCanonicalName ==
  pc = "returned" =>
    \A j, k \in DOMAIN result.markers :
      j # k => normalize_marker_name(result.markers[j].name)
                 # normalize_marker_name(result.markers[k].name)

\* C13: normalize_marker_name is idempotent; equivalently, the lowercase of
\* every canonical name of the alias table is either no key of the table or
\* a key that maps to that canonical name.
NormalizeIdempotent ==
  /\ call.fn = "normalize_marker_name" =>
       normalize_marker_name(call.ret) = call.ret
  /\ \A j \in 1..Len(MARKER_ALIASES) :
       \/ Lower(MARKER_ALIASES[j][2]) \notin AliasKeys
       \/ AliasGet(Lower(MARKER_ALIASES[j][2]), <<>>) = MARKER_ALIASES[j][2]

\* C13: an alias was replaced by a canonical name whose lowercase is a key
CanonicalNameIsAKeyAgain ==
  /\ call.fn = "normalize_marker_name"
  /\ call.arg = <<"a", "1", "c">>
  /\ call.ret = sHbA1c
  /\ Lower(call.ret) \in AliasKeys

\* C14: an input that equals a key k of the alias table after lowercasing
\* and trimming gives the canonical name table[k]; every other input is
\* returned trimmed and otherwise unchanged.
NormalizeLooksUpLowercaseTrimmed ==
  call.fn = "normalize_marker_name" =>
    /\ Strip(Lower(call.arg)) \in AliasKeys =>
         \E j \in 1..Len(MARKER_ALIASES) :
           MARKER_ALIASES[j] = <<Strip(Lower(call.arg)), call.ret>>
    /\ Strip(Lower(call.arg)) \notin AliasKeys => call.ret = Strip(call.arg)

\* C14: " Ldl-c" gave "LDL Cholesterol"
LdlCNormalized ==
  /\ call.fn = "normalize_marker_name"
  /\ call.arg = <<" ", "L", "d", "l", "-", "c">>
  /\ call.ret = <<"L", "D", "L", " ", "C", "h", "o", "l", "e", "s", "t", "e", "r", "o", "l">>
\* C15: the text extract_text_tesseract returns scores (characters plus twice
\* the digits) at least as high as the text of every attempted combination
\* of strategy and layout mode; when an attempt gave text, the returned text
\* is the candidate the function kept, with the highest score of the grid.
BestScoringTextReturned ==
  \A k \in EventsOf("ocr") :
    /\ Score(log[k].text) >= top_score
    /\ top_score > 0 => /\ Score(log[k].text) = top_score
                        /\ best_length = top_score
                        /\ log[k].text = best_text

\* Two attempts of the grid gave texts of different scores and the text of
\* the highest score was returned
HighestOfDifferentScoresReturned ==
  \E k \in EventsOf("ocr") : outscored /\ Score(log[k].text) = top_score

sLDLCholesterol == <<"L", "D", "L", " ", "C", "h", "o", "l", "e", "s", "t", "e", "r", "o", "l">>

\* The name of a line "name: value [unit]" is accepted by the biomarker test
AcceptedName(line) ==
  /\ Pattern2Search(line).matched
  /\ \/ \E known \in known_markers : Contains(Lower(Strip(Pattern2Search(line).name)), known)
     \/ Len(Strip(Pattern2Search(line).name)) >= 3

\* C16: for a text whose lines have the form "name: value [unit]" with an
\* accepted name, extract_markers_regex returns without raising, with one
\* marker per distinct normalized name that carries the parsed value;
\* "HDL: 55\nLDL: 130" gives "HDL Cholesterol" 55.0 and "LDL Cholesterol" 130.0.
ColonLinesGiveOneMarkerPerName ==
  (/\ call.fn = "extract_markers_regex"
   /\ call.arg \in ColonTexts
   /\ \A j \in DOMAIN call.arg : AcceptedName(call.arg[j])) =>
    /\ ~call.ret.raised
    /\ \A j \in DOMAIN call.arg :
         \E k \in DOMAIN call.ret.markers :
           call.ret.markers[k].name
             = normalize_marker_name(Strip(Pattern2Search(call.arg[j]).name))
    /\ \A j, k \in DOMAIN call.ret.markers :
         call.ret.markers[j].name = call.ret.markers[k].name => j = k
    /\ call.arg = <<"HDL: 55", "LDL: 130">> =>
         /\ Len(call.ret.markers) = 2
         /\ Holds(call.ret.markers, sHDLCholesterol, 5500)
         /\ Holds(call.ret.markers, sLDLCholesterol, 13000)

\* The reply holds a JSON object that is not {"markers": [objects], ...}
UnexpectedStructure(parsed) ==
  /\ parsed.t = "obj"
  /\ \/ parsed.markers.t # "list"
     \/ \E k \in DOMAIN parsed.markers.items : parsed.markers.items[k].t # "obj"

\* A reply that is a transport timeout, a non-2xx status, a reply without a
\* JSON object, with invalid JSON or with a JSON object of another structure
FailureReply(reply) ==
  \/ reply.kind # "ok"
  \/ /\ reply.kind = "ok"
     /\ \/ ExtractJson(reply.content).t \in {"no_match", "invalid"}
        \/ UnexpectedStructure(ExtractJson(reply.content))

\* C17: parse_markers_with_llm never raises; on a transport timeout, a
\* non-2xx status, a reply without a JSON object, invalid JSON or a JSON
\* object of unexpected structure it returns no markers with confidence 0.0.
ParserFailureIsEmptyZero ==
  (call.fn = "parse_markers_with_llm" /\ FailureReply(call.arg)) =>
    /\ call.ret.markers = <<>>
    /\ call.ret.confidence = JNum(0)

\* The value of an entry is missing or cannot be parsed as a number
Unparsable(v) ==
  \/ v.t \in {"missing", "null", "bool", "list", "obj", "bigint"}
  \/ v.t = "str" /\ ~PyFloat(KeepNumericChars(v.s)).ok

\* An entry that is in order apart from its value
InOrderApartFromValue(e) ==
  /\ e.t = "obj"
  /\ e.name.t = "str" /\ Strip(e.name.s) # <<>>
  /\ e.unit.t = "str" /\ Len(e.unit.s) \in 1..MaxUnitLen
  /\ e.reference_low.t = "missing" /\ e.reference_high.t = "missing"
  /\ e.flag.t = "missing"

ValueParsed(e) == ~Unparsable(e.value)

\* The markers ms are the entries es, in their order
SameEntries(ms, es) ==
  /\ Len(ms) = Len(es)
  /\ \A k \in DOMAIN es :
       /\ k \in DOMAIN ms
       /\ ms[k].name = normalize_marker_name(es[k].name.s)
       /\ es[k].value.t = "num" => ms[k].value = es[k].value.v

\* C18: an entry whose value is missing or cannot be parsed as a number is
\* dropped, never replaced by 0, and every other entry of the reply is
\* returned, in the order of the reply.
UnparsableValuesDropped ==
  (/\ call.fn = "parse_markers_with_llm"
   /\ call.arg.kind = "ok"
   /\ ExtractJson(call.arg.content).t = "obj"
   /\ ExtractJson(call.arg.content).markers.t = "list"
   /\ \A k \in DOMAIN ExtractJson(call.arg.content).markers.items :
        InOrderApartFromValue(ExtractJson(call.arg.content).markers.items[k])) =>
    SameEntries(call.ret.markers,
                SelectSeq(ExtractJson(call.arg.content).markers.items, ValueParsed))

RECURSIVE SumConf(_)
\* The sum of the confidences cs, which are numbers
SumConf(cs) == IF cs = <<>> THEN 0 ELSE NumberOf(Head(cs)) + SumConf(Tail(cs))

\* c is total / n rounded to two decimals (thousandths, so a multiple of 10)
IsRoundedMean(c, total, n) ==
  /\ c % 10 = 0
  /\ n * c - total <= 5 * n
  /\ total - n * c <= 5 * n

\* C19: the confidence of the result is the arithmetic mean of the
\* confidences of the pages over all decoded pages, rounded to two decimals;
\* a page of confidence 0.0 counts in the denominator, and a document of
\* zero pages has confidence 0.0.
ConfidenceIsMeanOfPages ==
  (pc = "returned" /\ \A k \in DOMAIN page_conf : IsNumber(page_conf[k])) =>
    /\ result.confidence.t = "num"
    /\ IF images = <<>> THEN result.confidence.v = 0
       ELSE IsRoundedMean(result.confidence.v, SumConf(page_conf), Len(images))

\* C19 on the calls that end without an exception
MeanOfPagesWithoutException ==
  (pc = "returned" /\ raisedIn = NotRaised) =>
    /\ Len(page_conf) = Len(images)
    /\ \A k \in DOMAIN page_conf : IsNumber(page_conf[k])
    /\ result.confidence.t = "num"
    /\ IF images = <<>> THEN result.confidence.v = 0
       ELSE IsRoundedMean(result.confidence.v, SumConf(page_conf), Len(images))

\* The confidence process_image_ocr returns for the page is the one of the
\* stage that produced its markers
FromProducingStage ==
  /\ pageState[i] = "ParsedByLLM" =>
       /\ EventsOf("llm") # {}
       /\ \A k \in EventsOf("llm") : log[k].n > 0 /\ confidence = log[k].conf
  /\ pageState[i] = "ParsedByRegex" =>
       /\ EventsOf("regex") # {}
       /\ confidence = JNum(500)
  /\ pageState[i] = "ParsedByVision" =>
       /\ EventsOf("vision") # {}
       /\ \A k \in EventsOf("vision") : log[k].n > 0 /\ confidence = log[k].conf

\* The result of a single-page input whose markers a stage produced with a
\* confidence that is a number
SinglePageParsed ==
  /\ pc = "returned"
  /\ Len(images) = 1
  /\ pageState[1] \in {"ParsedByLLM", "ParsedByRegex", "ParsedByVision"}
  /\ confidence.t = "num"

\* C20: the confidence of a page is the one of the stage that produced its
\* markers: the one the structured parser reported when it returned markers,
\* 0.5 when the regex fallback produced them (whatever the parser reported
\* with its empty list), the one the vision stage reported when the vision
\* fallback produced them; for a single-page input the confidence of the
\* final result is this confidence rounded to two decimals.
PageConfidenceOfProducingStage ==
  /\ pc = "accumulate" => FromProducingStage
  /\ SinglePageParsed =>
       /\ FromProducingStage
       /\ result.confidence.t = "num"
       /\ IsRoundedMean(result.confidence.v, confidence.v, 1)

\* C20 as stated: for a single-page input the confidence of the final result
\* is the confidence of the producing stage itself
SinglePageConfidenceUnchanged ==
  /\ pc = "accumulate" => FromProducingStage
  /\ SinglePageParsed => FromProducingStage /\ result.confidence = confidence

\* The parser returned a marker with confidence 0.873 for a single image,
\* and the result has confidence 0.87
ParserConfidenceRounded ==
  /\ SinglePageParsed
  /\ pageState[1] = "ParsedByLLM"
  /\ \E k \in EventsOf("llm") : log[k].conf = JNum(873)
  /\ result.confidence = JNum(870)

\* The parser reported 0.9 with an empty list and the regex fallback
\* produced the markers of the page
RegexAfterConfidentParser ==
  /\ SinglePageParsed
  /\ pageState[1] = "ParsedByRegex"
  /\ \E k \in EventsOf("llm") : log[k].conf = JNum(900) /\ log[k].n = 0
  /\ result.confidence = JNum(500)

Callers == {"bulk_upload_bloodwork", "process_ocr"}

\* C21: a caller passes a file to process_single_file only after it has
\* checked the file against the allow-list of supported types and the 50 MB
\* size ceiling; a file that fails either check is never passed.
CallersCheckTypeAndSize ==
  (call.fn \in Callers /\ call.ret.passed) =>
    /\ \/ call.ret.content_type \in valid_types
       \/ \E suffix \in valid_suffixes : EndsWith(Lower(call.ret.filename), suffix)
    /\ call.ret.size <= MaxUploadBytes

\* C21 for the bulk upload handler alone
BulkUploadChecksTypeAndSize ==
  (call.fn = "bulk_upload_bloodwork" /\ call.ret.passed) =>
    /\ is_valid(call.arg.content_type, call.ret.filename)
    /\ call.arg.readable
    /\ call.arg.size <= MaxUploadBytes

\* C22: process_with_vision applies the per-marker rules of the structured
\* parser (names normalized through the alias table, string values coerced
\* to numbers, a failing entry dropped alone): for a reply it returns the
\* markers parse_markers_with_llm returns for that reply.
VisionAppliesParserRules ==
  call.fn = "process_with_vision" =>
    call.ret.markers = parse_markers_with_llm(call.arg).markers

\* C22 for the replies whose entries are complete, carry numbers as values
\* and canonical names
VisionAgreesOnPlainEntries ==
  (/\ call.fn = "process_with_vision"
   /\ call.arg.kind = "ok"
   /\ ExtractJson(call.arg.content).t = "obj"
   /\ ExtractJson(call.arg.content).markers.t = "list"
   /\ \A k \in DOMAIN ExtractJson(call.arg.content).markers.items :
        /\ InOrderApartFromValue(ExtractJson(call.arg.content).markers.items[k])
        /\ ExtractJson(call.arg.content).markers.items[k].value.t = "num"
        /\ normalize_marker_name(ExtractJson(call.arg.content).markers.items[k].name.s)
             = ExtractJson(call.arg.content).markers.items[k].name.s) =>
    call.ret.markers = parse_markers_with_llm(call.arg).markers

\* The first balanced {...} object of a reply's content, as a reply of its own
FirstObject(content) ==
  Ok(<<content[CHOOSE k \in DOMAIN content :
                 /\ content[k].c = "object"
                 /\ \A j \in DOMAIN content : content[j].c = "object" => k <= j]>>)

HasObject(reply) ==
  /\ reply.kind = "ok"
  /\ \E k \in DOMAIN reply.content : reply.content[k].c = "object"

\* C23: when the reply wraps a JSON object in prose, the first balanced
\* {...} object of the reply is the one parsed, wherever further '{' or '}'
\* stand in the prose or in later objects: the markers returned are those of
\* that first object.
FirstBalancedObjectParsed ==
  /\ (call.fn = "parse_markers_with_llm" /\ HasObject(call.arg)) =>
       call.ret.markers = parse_markers_with_llm(FirstObject(call.arg.content)).markers
  /\ (call.fn = "process_with_vision" /\ HasObject(call.arg)) =>
       call.ret.markers = process_with_vision(FirstObject(call.arg.content)).markers

\* C23 for the replies with one object and no other brace
SingleObjectInProseParsed ==
  (/\ call.fn \in {"parse_markers_with_llm", "process_with_vision"}
   /\ HasObject(call.arg)
   /\ Cardinality({k \in DOMAIN call.arg.content : call.arg.content[k].c # "prose"}) = 1) =>
    call.ret.markers =
      IF call.fn = "parse_markers_with_llm"
      THEN parse_markers_with_llm(FirstObject(call.arg.content)).markers
      ELSE process_with_vision(FirstObject(call.arg.content)).markers

\* C24: the un-preprocessed last-resort call is made exactly once if, and
\* only if, every combination of the grid failed or returned empty text;
\* when it fails or returns nothing too, extract_text_tesseract returns the
\* empty string, without raising.
LastResortOnlyAfterEmptyGrid ==
  /\ EventsOf("ocr") = {} => last_resort = 0
  /\ \A k \in EventsOf("ocr") :
       /\ last_resort \in {0, 1}
       /\ last_resort = 1 <=> top_score = 0
       /\ last_resort = 0 => log[k].text = best_text /\ best_text # <<>>
       /\ attempts <= Len(strategies) * Len(psm_modes) + last_resort
       /\ raisedIn.stage # "ocr"

\* All nine combinations were tried and gave nothing, the last resort was
\* made and gave nothing, and the function returned the empty string
LastResortGaveNothing ==
  /\ EventsOf("ocr") # {}
  /\ \A k \in EventsOf("ocr") : log[k].text = <<>>
  /\ last_resort = 1
  /\ attempts = Len(strategies) * Len(psm_modes) + 1
  /\ raisedIn = NotRaised

\* The (strategy, layout-mode) combinations of the grid
GridSize == Len(strategies) * Len(psm_modes)

\* C25: an exception of the recognition engine on one combination does not
\* stop the grid search: when the grid is finished and every preprocessing
\* succeeded, all 9 combinations were attempted and the text held is the
\* best-scoring successful one, which is the text returned when it is not
\* empty.
EngineFailureDoesNotStopGrid ==
  /\ (pc = "ocr_done" /\ engine_failed /\ skipped = 0) =>
        /\ attempts = GridSize
        /\ best_length = top_score
        /\ Score(best_text) = top_score
  /\ (pc \in {"llm", "regex", "vision", "accumulate"} /\ skipped = 0) =>
        /\ attempts - last_resort = GridSize
        /\ last_resort = 0 => Score(raw_text) = top_score /\ raw_text = best_text

\* C25: the grid is finished after an engine failure, with texts of
\* different scores among its 9 attempts
GridFinishedAfterEngineFailure ==
  /\ pc = "ocr_done"
  /\ engine_failed
  /\ skipped = 0
  /\ attempts = GridSize
  /\ outscored
  /\ best_text # <<>>

\* The marker the patterns give for line number j of the text, if any
LineGives(lines, j, m) == RegexLine(StripLine(lines[j])) = [r |-> "append", m |-> m]

\* C26: extract_markers_regex gives at most one marker per text line and at
\* most one marker per lowercase normalized name: the markers returned come,
\* in order, from lines of their own, no two of them have the same lowercase
\* name, and each comes from the topmost line that yields its name.
RegexOneMarkerPerLineAndName ==
  (call.fn = "extract_markers_regex" /\ ~call.ret.raised) =>
    LET ms == call.ret.markers
        lines == call.arg
    IN  /\ \A a, b \in DOMAIN ms : a # b => Lower(ms[a].name) # Lower(ms[b].name)
        /\ \E f \in [DOMAIN ms -> DOMAIN lines] :
              /\ \A a, b \in DOMAIN ms : a < b => f[a] < f[b]
              /\ \A k \in DOMAIN ms :
                    /\ LineGives(lines, f[k], ms[k])
                    /\ \A j \in 1..(f[k] - 1) :
                          RegexLine(StripLine(lines[j])).r = "append" =>
                            Lower(RegexLine(StripLine(lines[j])).m.name) # Lower(ms[k].name)

\* C26: of two lines that yield glucose, the marker of the topmost is returned
TopmostGlucoseLineKept ==
  /\ call.fn = "extract_markers_regex"
  /\ call.arg = <<"Glucose 95 mg/dL", "", "glucose 98 mg/dL">>
  /\ ~call.ret.raised
  /\ Len(call.ret.markers) = 1
  /\ call.ret.markers[1].value = 9500

\* The document was processed to the end without an exception
ReturnedNormally == pc = "returned" /\ raisedIn = NotRaised

\* C27: raw_text of the result is the recognized texts of the pages in page
\* order, with a page-boundary delimiter only when the document has more
\* than one page: a single-page document, an image or a one-page PDF, yields
\* its page's recognized text with no delimiter, and raw_text is null when
\* no page produced text.
SinglePageTextWithoutDelimiter ==
  ReturnedNormally =>
    /\ all_text_parts = <<>> => result.raw_text = None
    /\ (Len(images) = 1 /\ raw_text # <<>>) =>
          result.raw_text = [t |-> "str", lines |-> raw_text]

\* C27: what holds.  The text of an image is its recognized text; the text
\* of a PDF is the texts of its pages that are not empty, in page order,
\* each one after its "--- Page n ---" line, also when the PDF has one page;
\* raw_text is null when no page produced text.
PdfPagesAlwaysDelimited ==
  ReturnedNormally =>
    /\ all_text_parts = <<>> => result.raw_text = None
    /\ all_text_parts # <<>> =>
          result.raw_text = [t |-> "str", lines |-> JoinParts(all_text_parts)]
    /\ (~IsPdf(request.content_type, request.filename) /\ raw_text # <<>>) =>
          result.raw_text = [t |-> "str", lines |-> raw_text]
    /\ (IsPdf(request.content_type, request.filename) /\ Len(images) = 1
           /\ raw_text # <<>>) =>
          result.raw_text = [t |-> "str", lines |-> <<"--- Page 1 ---">> \o raw_text]
    /\ IsPdf(request.content_type, request.filename) =>
          \E pages \in SUBSET (1..Len(images)) :
            /\ Cardinality(pages) = Len(all_text_parts)
            /\ \A k \in DOMAIN all_text_parts :
                  \E p \in pages :
                    /\ Cardinality({q \in pages : q <= p}) = k
                    /\ Head(all_text_parts[k]) = "--- Page " \o ToString(p) \o " ---"

\* C28: for every input image size (width, height >= 1) and every strategy,
\* the image returned by preprocess_image has its smaller dimension >= 1500
\* and its larger dimension <= 4000.
PreprocessedSizeInRange ==
  call.fn = "preprocess_image" =>
    /\ ~call.ret.raised
    /\ Min(call.ret.size[1], call.ret.size[2]) >= min_dimension
    /\ Max(call.ret.size[1], call.ret.size[2]) <= max_dimension

\* C28: what holds.  An image that is returned has its larger dimension
\* <= 4000, and an image of sides between 1500 and 4000 keeps its size.
PreprocessedSizeBelowCeiling ==
  call.fn = "preprocess_image" =>
    /\ ~call.ret.raised => Max(call.ret.size[1], call.ret.size[2]) <= max_dimension
    /\ (\A k \in 1..2 : call.arg.size[k] \in min_dimension..max_dimension) =>
          ~call.ret.raised /\ call.ret.size = call.arg.size

\* The vision fallback ran for the current page and answered with prose
VisionGaveProse ==
  \E k \in DOMAIN log : log[k].stage = "vision" /\ log[k].outcome = "prose"

\* C29: the raw text process_image_ocr returns for a page is always the
\* text of the recognition grid search, also after the vision fallback ran:
\* the text of the vision reply never appears in the raw_text of the result.
RawTextIsRecognizedText ==
  /\ pc \in {"llm", "regex", "vision", "accumulate"} => raw_text = best_text
  /\ (ReturnedNormally /\ Len(images) >= 1) =>
        /\ raw_text = best_text
        /\ IF IsPdf(request.content_type, request.filename)
           THEN /\ best_text # <<>> =>
                      all_text_parts[Len(all_text_parts)] = PagePart(i, best_text)
                /\ Len(images) = 1 =>
                      result.raw_text =
                        IF best_text # <<>>
                        THEN [t |-> "str", lines |-> PagePart(1, best_text)] ELSE None
           ELSE result.raw_text =
                  IF best_text # <<>> THEN [t |-> "str", lines |-> best_text] ELSE None

\* C29: the vision fallback answered with prose for a page with recognized
\* text, and the result has the recognized text and confidence 0.3
ProseOfVisionDiscarded ==
  /\ ReturnedNormally
  /\ VisionGaveProse
  /\ best_text # <<>>
  /\ result.confidence = JNum(300)
  /\ result.raw_text = [t |-> "str", lines |-> best_text]

\* C30: every marker in a result returned by process_single_file has a
\* non-empty name and a non-empty unit.
MarkersHaveNameAndUnit ==
  (pc = "returned" /\ result.t = "OCRResponse") =>
    \A k \in DOMAIN result.markers :
      result.markers[k].name # <<>> /\ result.markers[k].unit # <<>>

\* C30: what holds.  Every marker of a result has a non-empty unit, and a
\* marker of the structured parser or of the regex stage has a non-empty name.
MarkersHaveUnit ==
  /\ (pc = "returned" /\ result.t = "OCRResponse") =>
        \A k \in DOMAIN result.markers : result.markers[k].unit # <<>>
  /\ \A e \in DOMAIN log :
        (log[e].stage \in {"llm", "regex"} /\ log[e].n > 0 /\ pc \in {"regex", "vision", "accumulate"}
           /\ e = Len(log)) =>
          \A k \in DOMAIN markers : markers[k].name # <<>> /\ markers[k].unit # <<>>

====
